---- MODULE Spec2Model ----
(***************************************************************************)
(* Whalrus: ballots, scales and ballot converters.                         *)
(*                                                                         *)
(* The converters are pure functions.  They are modelled as operators and  *)
(* exercised by a state machine whose initial states enumerate the call    *)
(* (converter configuration, input x, candidates argument) and whose       *)
(* actions perform the call and store what it returns or raises.           *)
(*                                                                         *)
(* Numbers are exact rationals n/d in lowest terms; the int/float          *)
(* distinction of Python is kept as a tag, rounding of binary floating     *)
(* point is not represented.                                               *)
(***************************************************************************)
EXTENDS Integers, Sequences, FiniteSets, TLC

VARIABLES pc, conv, x, cands, out, first, cands2, direct, read,
          scorer, rule, loads, changed, warnings

\* the variables used by the calls on a ballot only
ballotVars == <<cands2, direct>>

\* the variables of the instances that load a ballot or a profile
objVars == <<scorer, rule, loads, changed, warnings>>

vars == <<pc, conv, x, cands, out, first, read, ballotVars, objVars>>

(***************************************************************************)
(* Bounds of the exploration.                                              *)
(***************************************************************************)
NumCands == 3          \* candidates of the enumerated ballots
MaxGrade == 2          \* numeric grades range over 0 .. MaxGrade

AllNames == <<"a", "b", "c", "d", "e", "f", "g">>
Min2(i, j) == IF i <= j THEN i ELSE j
Cands == {AllNames[i] : i \in 1 .. Min2(NumCands, Len(AllNames))}

None == "None"

(***************************************************************************)
(* Exact rational arithmetic on records [n, d] with d > 0, lowest terms.   *)
(***************************************************************************)
Abs(i) == IF i < 0 THEN -i ELSE i

RECURSIVE Gcd(_, _)
Gcd(i, j) == IF j = 0 THEN i ELSE Gcd(j, i % j)

Norm(n, d) ==
    LET s == IF d < 0 THEN -1 ELSE 1
        g == Gcd(Abs(n), Abs(d))
    IN  [n |-> (s * n) \div g, d |-> (s * d) \div g]

(***************************************************************************)
(* Python values that occur as levels: int, float, str.  A str value       *)
(* carries in n its rank in the natural (lexicographic) order of str.      *)
(***************************************************************************)
PyInt(i) == [k |-> "int", n |-> i, d |-> 1]
PyFloat(n, d) == [k |-> "float"] @@ Norm(n, d)
PyStr(i) == [k |-> "str", n |-> i, d |-> 1]
PyNone == [k |-> "None", n |-> 0, d |-> 1]

IsNumber(v) == v.k \in {"int", "float"}
IsInt(v) == v.k = "int"

\* natural comparison of two values of the same family
Lt(v, w) == v.n * w.d < w.n * v.d
Le(v, w) == v.n * w.d <= w.n * v.d
NumEq(v, w) == v.n * w.d = w.n * v.d

\* the == of Python on levels
PyEq(v, w) == (v.k = w.k \/ (IsNumber(v) /\ IsNumber(w))) /\ NumEq(v, w)

NumKind(v, w) == IF v.k = "int" /\ w.k = "int" THEN "int" ELSE "float"
Add(v, w) == [k |-> NumKind(v, w)] @@ Norm(v.n * w.d + w.n * v.d, v.d * w.d)
Sub(v, w) == [k |-> NumKind(v, w)] @@ Norm(v.n * w.d - w.n * v.d, v.d * w.d)
Mul(v, w) == [k |-> NumKind(v, w)] @@ Norm(v.n * w.n, v.d * w.d)
\* true division: the result is a float whatever the operands
TrueDiv(v, w) == [k |-> "float"] @@ Norm(v.n * w.d, v.d * w.n)

MinOf(vs) == CHOOSE v \in vs : \A w \in vs : Le(v, w)
MaxOf(vs) == CHOOSE v \in vs : \A w \in vs : Le(w, v)

(***************************************************************************)
(* Sequences and sets.                                                     *)
(***************************************************************************)
RECURSIVE SetToSortedSeq(_)
SetToSortedSeq(vs) ==
    IF vs = {} THEN <<>>
    ELSE LET m == MinOf(vs) IN <<m>> \o SetToSortedSeq(vs \ {m})

Range(sq) == {sq[i] : i \in 1 .. Len(sq)}

RECURSIVE UnionSeq(_)
UnionSeq(sq) == IF sq = <<>> THEN {} ELSE Head(sq) \cup UnionSeq(Tail(sq))

RECURSIVE Reverse(_)
Reverse(sq) == IF sq = <<>> THEN <<>> ELSE Reverse(Tail(sq)) \o <<Head(sq)>>

NonEmptyOnly(sq) == SelectSeq(sq, LAMBDA cl : cl # {})

(***************************************************************************)
(* Scales.  One record shape for all scale classes.                        *)
(***************************************************************************)
NoScale == [type |-> "NoScale", low |-> PyNone, high |-> PyNone, levels |-> <<>>]

\* the generic Scale(): no bounds
ScaleGeneric == [type |-> "Scale", low |-> PyNone, high |-> PyNone, levels |-> <<>>]

ScaleInterval(low, high) ==
    [type |-> "ScaleInterval", low |-> low, high |-> high, levels |-> <<>>]

ScaleRange(low, high) ==
    [type |-> "ScaleRange", low |-> low, high |-> high, levels |-> <<>>]

\* levels from the worst to the best
ScaleFromList(levels) ==
    [type |-> "ScaleFromList",
     low |-> IF levels = <<>> THEN PyNone ELSE levels[1],
     high |-> IF levels = <<>> THEN PyNone ELSE levels[Len(levels)],
     levels |-> levels]

\* a ScaleFromList over the naturally sorted set
ScaleFromSet(vs) ==
    [ScaleFromList(SetToSortedSeq(vs)) EXCEPT !.type = "ScaleFromSet"]

IsScaleFromList(sc) == sc.type \in {"ScaleFromList", "ScaleFromSet"}

is_bounded(sc) == sc.low # PyNone /\ sc.high # PyNone

is_numeric(sc) == \A i \in 1 .. Len(sc.levels) : IsNumber(sc.levels[i])

\* ScaleFromList.as_dict: level -> index, from 0
IndexOf(sc, v) == (CHOOSE i \in 1 .. Len(sc.levels) : sc.levels[i] = v) - 1

\* Scale.lt, Scale.gt: the order of the scale, which is the order of the
\* list for a ScaleFromList and the natural order of the values otherwise
lt(sc, one, another) ==
    IF IsScaleFromList(sc) THEN IndexOf(sc, one) < IndexOf(sc, another)
    ELSE Lt(one, another)

gt(sc, one, another) == lt(sc, another, one)

\* the domain of a scale: the levels a ballot on this scale may hold
InScale(sc, v) ==
    CASE sc.type = "ScaleInterval" -> IsNumber(v) /\ Le(sc.low, v) /\ Le(v, sc.high)
      [] sc.type = "ScaleRange" -> IsInt(v) /\ Le(sc.low, v) /\ Le(v, sc.high)
      [] IsScaleFromList(sc) -> v \in Range(sc.levels)
      [] OTHER -> TRUE

(***************************************************************************)
(* Ballots.  One record shape for all ballot classes:                      *)
(*   variant    the class of the ballot                                    *)
(*   order      BallotOrder: the indifference classes, best first          *)
(*   levels     BallotLevels: candidate -> level (the dictionary)          *)
(*   candidate  BallotOneName, BallotPlurality, BallotVeto: the name held  *)
(*   candidates the declared candidates                                    *)
(*   scale      BallotLevels: the scale given at construction, or NoScale  *)
(***************************************************************************)
EmptyDict == [c \in {} |-> PyNone]

\* the candidates argument of restrict and of the converters: None or a set
CandNone == [none |-> TRUE, set |-> {}]
CandSet(s) == [none |-> FALSE, set |-> s]

NoBallot ==
    [variant |-> "NoBallot", order |-> <<>>, levels |-> EmptyDict,
     candidate |-> None, candidates |-> {}, scale |-> NoScale]

\* BallotOrder(b, candidates): candidates defaults to those named in b
BallotOrder(b, candidates) ==
    [variant |-> "BallotOrder", order |-> b, levels |-> EmptyDict,
     candidate |-> None, candidates |-> candidates, scale |-> NoScale]

BallotLevels(b, candidates, scale) ==
    [variant |-> "BallotLevels", order |-> <<>>, levels |-> b,
     candidate |-> None, candidates |-> candidates, scale |-> scale]

BallotOneName(b, candidates) ==
    [variant |-> "BallotOneName", order |-> <<>>, levels |-> EmptyDict,
     candidate |-> b, candidates |-> candidates, scale |-> NoScale]

BallotPlurality(b, candidates) ==
    [BallotOneName(b, candidates) EXCEPT !.variant = "BallotPlurality"]

BallotVeto(b, candidates) ==
    [BallotOneName(b, candidates) EXCEPT !.variant = "BallotVeto"]

\* the class hierarchy: isinstance(x, cls)
IsInstance(b, cls) ==
    CASE cls = "Ballot" -> b.variant # "NoBallot"
      [] cls = "BallotOrder" -> b.variant \in {"BallotOrder", "BallotLevels"}
      [] cls = "BallotOneName" ->
            b.variant \in {"BallotOneName", "BallotPlurality", "BallotVeto"}
      [] OTHER -> b.variant = cls

Values(b) == {b.levels[c] : c \in DOMAIN b.levels}

\* BallotLevels.as_weak_order: classes by decreasing value, natural order
LevelsAsWeakOrder(b) ==
    LET sorted == Reverse(SetToSortedSeq(Values(b)))
    IN  [i \in 1 .. Len(sorted) |->
            {c \in DOMAIN b.levels : PyEq(b.levels[c], sorted[i])}]

as_weak_order(b) ==
    IF b.variant = "BallotLevels" THEN LevelsAsWeakOrder(b) ELSE b.order

candidates_in_b(b) ==
    IF b.variant = "BallotLevels" THEN DOMAIN b.levels ELSE UnionSeq(b.order)

candidates_not_in_b(b) == b.candidates \ candidates_in_b(b)

\* len(ballot): the number of candidates named in the ballot
BallotLen(b) == Cardinality(candidates_in_b(b))

\* a variant that tests for numbers before it tests for integers
BallotScaleNumbersFirst(b) ==
    IF b.scale # NoScale THEN b.scale
    ELSE IF BallotLen(b) = 0 THEN ScaleFromSet({})
    ELSE IF \A v \in Values(b) : IsNumber(v)
        THEN ScaleInterval(MinOf(Values(b)), MaxOf(Values(b)))
    ELSE ScaleFromSet(Values(b))

\* BallotLevels.scale: the scale given, or the one inferred from the values
BallotScale(b) ==
    IF b.scale # NoScale THEN b.scale
    ELSE IF BallotLen(b) = 0 THEN ScaleFromSet({})
    ELSE IF \A v \in Values(b) : IsInt(v)
        THEN ScaleRange(MinOf(Values(b)), MaxOf(Values(b)))
    ELSE IF \A v \in Values(b) : IsNumber(v)
        THEN ScaleInterval(MinOf(Values(b)), MaxOf(Values(b)))
    ELSE ScaleFromSet(Values(b))

\* a dictionary restricted to the keys in s
RestrictDict(d, s) == [c \in (DOMAIN d) \cap s |-> d[c]]

\* a variant that declares the whole subset as the candidates of the result
LevelsRestrictToSubset(b, s) ==
    IF s.none THEN b
    ELSE BallotLevels(RestrictDict(b.levels, s.set), s.set, BallotScale(b))

\* a variant that lets the result infer its scale from the values it keeps
LevelsRestrictInferred(b, s) ==
    IF s.none THEN b
    ELSE BallotLevels(RestrictDict(b.levels, s.set), b.candidates \cap s.set,
                      b.scale)

\* BallotLevels.restrict(candidates); candidates = None returns the ballot
LevelsRestrict(b, s) ==
    IF s.none THEN b
    ELSE BallotLevels(RestrictDict(b.levels, s.set), b.candidates \cap s.set,
                      BallotScale(b))

\* BallotOrder.restrict(candidates)
OrderRestrict(b, s) ==
    IF s.none THEN b
    ELSE BallotOrder(NonEmptyOnly([i \in 1 .. Len(b.order) |-> b.order[i] \cap s.set]),
                     b.candidates \cap s.set)

(***************************************************************************)
(* Priority: the tie-break policy.  choice(x) of an empty set is None, of  *)
(* a singleton its element; otherwise UNAMBIGUOUS raises and ASCENDING     *)
(* takes the first name (the last one when reverse).                       *)
(***************************************************************************)
UNAMBIGUOUS == "UNAMBIGUOUS"
ASCENDING == "ASCENDING"

NameRank(c) == CHOOSE i \in 1 .. Len(AllNames) : AllNames[i] = c

FirstName(s) == CHOOSE c \in s : \A e \in s : NameRank(c) <= NameRank(e)
LastName(s) == CHOOSE c \in s : \A e \in s : NameRank(e) <= NameRank(c)

ChoiceRaises(priority, s) == priority = UNAMBIGUOUS /\ Cardinality(s) > 1

Choice(priority, s, reverse) ==
    IF s = {} THEN None
    ELSE IF reverse THEN LastName(s) ELSE FirstName(s)

(***************************************************************************)
(* What a call gives: a ballot, or the exception it raises.                *)
(***************************************************************************)
Return(b) == [exc |-> "none", ballot |-> b]
Raise(e) == [exc |-> e, ballot |-> NoBallot]
Returned(r) == r.exc = "none"

\* BallotOneName.restrict, BallotPlurality.restrict, BallotVeto.restrict
OneNameRestrict(b, s, priority) ==
    LET kept == b.candidates \cap s.set
    IN  IF s.none THEN Return(b)
        ELSE IF b.candidate = None \/ b.candidate \in s.set
            THEN Return([b EXCEPT !.candidates = kept])
        ELSE IF ChoiceRaises(priority, kept) THEN Raise("ValueError")
        ELSE Return([b EXCEPT !.candidate = Choice(priority, kept, b.variant = "BallotVeto"),
                              !.candidates = kept])

(***************************************************************************)
(* BallotOrder.borda: a candidate gets one point per candidate ranked      *)
(* below it and half a point per candidate tied with it; the candidates    *)
(* not named in the ballot count as ranked below when they give points.    *)
(***************************************************************************)
RECURSIVE SumSizes(_, _)
SumSizes(order, i) ==
    IF i > Len(order) THEN 0 ELSE Cardinality(order[i]) + SumSizes(order, i + 1)

ClassOf(order, c) == CHOOSE i \in 1 .. Len(order) : c \in order[i]

borda(b, unordered_give_points) ==
    LET order == as_weak_order(b)
        from_unordered == IF unordered_give_points
                          THEN Cardinality(candidates_not_in_b(b)) ELSE 0
    IN  [c \in candidates_in_b(b) |->
            LET i == ClassOf(order, c)
            IN  PyFloat(2 * (from_unordered + SumSizes(order, i + 1))
                           + Cardinality(order[i]) - 1, 2)]

(***************************************************************************)
(* What the converters are called on: a ballot, a dict, a str, a list of   *)
(* indifference classes, or any other object (a scalar).  A str is given   *)
(* by its text and its tokens (names, ">" and "~").                        *)
(***************************************************************************)
InBallot(b) ==
    [tag |-> "ballot", ballot |-> b, dict |-> EmptyDict, text |-> "",
     toks |-> <<>>, classes |-> <<>>]

InDict(d) == [InBallot(NoBallot) EXCEPT !.tag = "dict", !.dict = d]

InStr(text, toks) ==
    [InBallot(NoBallot) EXCEPT !.tag = "str", !.text = text, !.toks = toks]

InList(classes) == [InBallot(NoBallot) EXCEPT !.tag = "list", !.classes = classes]

InScalar(text) == [InBallot(NoBallot) EXCEPT !.tag = "scalar", !.text = text]

\* only a list cannot be hashed
Hashable(in) == in.tag # "list"

(***************************************************************************)
(* The order syntax: names separated by ">" (then) or "~" (tied with).     *)
(***************************************************************************)
IsOp(t) == t \in {">", "~"}

ParseOk(toks) ==
    /\ Len(toks) % 2 = 1
    /\ \A i \in 1 .. Len(toks) : IsOp(toks[i]) <=> (i % 2 = 0)

RECURSIVE ParseOrder(_)
ParseOrder(toks) ==
    IF Len(toks) = 1 THEN << {toks[1]} >>
    ELSE LET rest == ParseOrder(SubSeq(toks, 3, Len(toks)))
         IN  IF toks[2] = ">" THEN << {toks[1]} >> \o rest
             ELSE << {toks[1]} \cup Head(rest) >> \o Tail(rest)

\* BallotOrder(x) on an object that is not a ballot: the exception, or "none"
OrderParseExc(in) ==
    CASE in.tag = "str" -> IF ParseOk(in.toks) THEN "none" ELSE "ParseException"
      [] in.tag = "list" -> "none"
      [] OTHER -> "TypeError"

OrderParsed(in) ==
    LET order == IF in.tag = "str" THEN ParseOrder(in.toks) ELSE in.classes
    IN  BallotOrder(order, UnionSeq(order))

\* BallotOneName(x): the object itself is the candidate, and is hashed
OneNameOf(in) ==
    IF Hashable(in) THEN Return(BallotOneName(in.text, {in.text}))
    ELSE Raise("TypeError")

(***************************************************************************)
(* ConverterBallotGeneral.  g holds the three priority options.            *)
(***************************************************************************)
GeneralOptions(plurality_priority, veto_priority, one_name_priority) ==
    [plurality_priority |-> plurality_priority,
     veto_priority |-> veto_priority,
     one_name_priority |-> one_name_priority]

DefaultGeneral == GeneralOptions(UNAMBIGUOUS, UNAMBIGUOUS, UNAMBIGUOUS)

\* a variant whose restricted order lists the classes kept from the last one
\* to the first one
RestrictAsOrderReversed(b, s) ==
    IF b.variant = "BallotLevels" THEN LevelsRestrict(b, s)
    ELSE IF s.none THEN b
    ELSE BallotOrder(Reverse(OrderRestrict(b, s).order), b.candidates \cap s.set)

\* the ballot's own restrict, for the subclasses of BallotOrder
RestrictAsOrder(b, s) ==
    IF b.variant = "BallotLevels" THEN LevelsRestrict(b, s) ELSE OrderRestrict(b, s)

\* a variant that tests BallotOneName before its subclasses, and so applies
\* one_name_priority to the Plurality and Veto ballots
GeneralOnBallotOneNameFirst(g, b, s) ==
    IF s.none THEN Return(b)
    ELSE IF IsInstance(b, "BallotOrder") THEN Return(RestrictAsOrder(b, s))
    ELSE IF IsInstance(b, "BallotOneName")
        THEN OneNameRestrict(b, s, g.one_name_priority)
    ELSE Raise("NotImplementedError")

\* the call on a ballot: the restriction to the candidates
GeneralOnBallot(g, b, s) ==
    IF s.none THEN Return(b)
    ELSE IF IsInstance(b, "BallotOrder") THEN Return(RestrictAsOrder(b, s))
    ELSE IF IsInstance(b, "BallotPlurality")
        THEN OneNameRestrict(b, s, g.plurality_priority)
    ELSE IF IsInstance(b, "BallotVeto")
        THEN OneNameRestrict(b, s, g.veto_priority)
    ELSE IF IsInstance(b, "BallotOneName")
        THEN OneNameRestrict(b, s, g.one_name_priority)
    ELSE Raise("NotImplementedError")

\* self(BallotOneName(x), candidates)
GeneralAsOneName(g, in, s) ==
    IF Returned(OneNameOf(in)) THEN GeneralOnBallot(g, OneNameOf(in).ballot, s)
    ELSE OneNameOf(in)

\* the try block: what it returns, or the exception that leaves it
GeneralTry(g, in, s) ==
    IF OrderParseExc(in) # "none" THEN Raise(OrderParseExc(in))
    ELSE IF BallotLen(OrderParsed(in)) = 1 THEN GeneralAsOneName(g, in, s)
    ELSE GeneralOnBallot(g, OrderParsed(in), s)

ConverterBallotGeneral(g, in, s) ==
    IF in.tag = "ballot" THEN GeneralOnBallot(g, in.ballot, s)
    ELSE IF in.tag = "dict"
        THEN GeneralOnBallot(g, BallotLevels(in.dict, DOMAIN in.dict, NoScale), s)
    ELSE IF GeneralTry(g, in, s).exc \in {"TypeError", "ParseException"}
        THEN GeneralAsOneName(g, in, s)
    ELSE GeneralTry(g, in, s)

(***************************************************************************)
(* ConverterBallotToLevelsInterval(scale, borda_unordered_give_points).    *)
(* t is the converter: its scale and its option.                           *)
(***************************************************************************)
ToLevelsOptions(scale, borda_unordered_give_points) ==
    [scale |-> scale, borda_unordered_give_points |-> borda_unordered_give_points]

\* a variant that forgets the low bound: (high - low) * num / den
AffineNoOffset(low, high, num, den) == TrueDiv(Mul(Sub(high, low), num), den)

\* low + (high - low) * num / den
Affine(low, high, num, den) == Add(low, TrueDiv(Mul(Sub(high, low), num), den))

\* BallotLevels(d, candidates=x.candidates, scale=...).restrict(candidates)
LevelsResult(d, b, scale, s) ==
    Return(LevelsRestrict(BallotLevels(d, b.candidates, scale), s))

VetoBranch(t, b, s) ==
    IF b.candidate = None THEN LevelsResult(EmptyDict, b, t.scale, s)
    ELSE LevelsResult([c \in b.candidates |->
                          IF c = b.candidate THEN t.scale.low ELSE t.scale.high],
                      b, t.scale, s)

OneNameBranch(t, b, s) ==
    IF b.candidate = None THEN LevelsResult(EmptyDict, b, t.scale, s)
    ELSE LevelsResult([c \in b.candidates |->
                          IF c = b.candidate THEN t.scale.high ELSE t.scale.low],
                      b, t.scale, s)

\* a variant that counts the candidates of the order whatever the option
ScoreMaxOrderedOnly(t, b) == Cardinality(candidates_in_b(b)) - 1

score_max(t, b) ==
    IF t.borda_unordered_give_points
    THEN Cardinality(b.candidates) - 1
    ELSE Cardinality(candidates_in_b(b)) - 1

OrderBranch(t, b, s) ==
    IF candidates_in_b(b) # {} /\ score_max(t, b) = 0 THEN Raise("ZeroDivisionError")
    ELSE LevelsResult([c \in candidates_in_b(b) |->
                          Affine(t.scale.low, t.scale.high,
                                 borda(b, t.borda_unordered_give_points)[c],
                                 PyInt(score_max(t, b)))],
                      b, t.scale, s)

\* the except clause: a scale given by a list maps a level through its index
FromListBranch(t, b, s) ==
    LET sc == BallotScale(b)
    IN  IF IsScaleFromList(sc)
        THEN IF \E v \in Values(b) : v \notin Range(sc.levels) THEN Raise("KeyError")
             ELSE IF Len(sc.levels) = 1 THEN Raise("ZeroDivisionError")
             ELSE LevelsResult([c \in DOMAIN b.levels |->
                                   Affine(t.scale.low, t.scale.high,
                                          PyInt(IndexOf(sc, b.levels[c])),
                                          PyInt(Len(sc.levels) - 1))],
                               b, t.scale, s)
        ELSE OrderBranch(t, b, s)

\* the try clause: the ballot read as a cardinal ballot
CardinalBranch(t, b, s) ==
    LET sc == BallotScale(b)
    IN  IF DOMAIN b.levels = {} THEN LevelsResult(EmptyDict, b, t.scale, s)
        ELSE IF ~ (IsNumber(sc.low) /\ IsNumber(sc.high)
                   /\ \A v \in Values(b) : IsNumber(v))
            THEN FromListBranch(t, b, s)
        ELSE IF NumEq(sc.high, sc.low) THEN Raise("ZeroDivisionError")
        ELSE LevelsResult([c \in DOMAIN b.levels |->
                              Affine(t.scale.low, t.scale.high,
                                     Sub(b.levels[c], sc.low), Sub(sc.high, sc.low))],
                          b, t.scale, s)

LevelsBranch(t, b, s) ==
    LET vals == Values(b)
        numeric == \A v \in vals : IsNumber(v)
    IN  IF is_bounded(BallotScale(b)) THEN CardinalBranch(t, b, s)
        ELSE IF ~ numeric
            THEN CardinalBranch(t, [b EXCEPT !.scale = ScaleFromSet(vals)], s)
        ELSE IF vals = {} THEN Raise("ValueError")
        ELSE IF Le(t.scale.low, MinOf(vals)) /\ Le(MaxOf(vals), t.scale.high)
            THEN LevelsResult(b.levels, b, ScaleInterval(t.scale.low, t.scale.high), s)
        ELSE CardinalBranch(
                t, [b EXCEPT !.scale = ScaleInterval(MinOf(vals), MaxOf(vals))], s)

\* a variant that tests BallotOneName, which BallotVeto extends, first
ToLevelsIntervalOneNameFirst(t, b, s) ==
    IF IsInstance(b, "BallotOneName") THEN OneNameBranch(t, b, s)
    ELSE IF IsInstance(b, "BallotVeto") THEN VetoBranch(t, b, s)
    ELSE IF IsInstance(b, "BallotLevels") THEN LevelsBranch(t, b, s)
    ELSE IF IsInstance(b, "BallotOrder") THEN OrderBranch(t, b, s)
    ELSE Raise("NotImplementedError")

ToLevelsIntervalOnBallot(t, b, s) ==
    IF IsInstance(b, "BallotVeto") THEN VetoBranch(t, b, s)
    ELSE IF IsInstance(b, "BallotOneName") THEN OneNameBranch(t, b, s)
    ELSE IF IsInstance(b, "BallotLevels") THEN LevelsBranch(t, b, s)
    ELSE IF IsInstance(b, "BallotOrder") THEN OrderBranch(t, b, s)
    ELSE Raise("NotImplementedError")

\* the conversion of what the general converter gave: r is the ballot it
\* returned or the exception it raised, which the call raises too
ToLevelsIntervalOn(t, r, s) ==
    IF Returned(r) THEN ToLevelsIntervalOnBallot(t, r.ballot, s) ELSE r

\* a variant that gives the candidates to the general converter, which then
\* restricts the ballot before it is converted
ToLevelsIntervalRestrictFirst(t, in, s) ==
    ToLevelsIntervalOn(t, ConverterBallotGeneral(DefaultGeneral, in, s), s)

\* ConverterBallotToLevelsInterval.__call__(x, candidates): x is read by the
\* general converter without candidates, then converted
ConverterBallotToLevelsInterval(t, in, s) ==
    ToLevelsIntervalOn(t, ConverterBallotGeneral(DefaultGeneral, in, CandNone), s)

(***************************************************************************)
(* The other specialized converters: to an integer range (the interval     *)
(* conversion, rounded) and to a numeric list (the interval conversion,    *)
(* moved to the closest level).                                            *)
(***************************************************************************)
\* round(v): to the nearest integer, a half to the even one
PyRound(v) ==
    LET q == v.n \div v.d
        r == v.n - q * v.d
    IN  IF 2 * r < v.d THEN PyInt(q)
        ELSE IF 2 * r > v.d THEN PyInt(q + 1)
        ELSE IF q % 2 = 0 THEN PyInt(q) ELSE PyInt(q + 1)

\* the level closest to v; of two equally close levels, the lower one
take_closest(levels, v) ==
    LET dist(w) == IF Le(v, w) THEN Sub(w, v) ELSE Sub(v, w)
        best == {w \in Range(levels) : \A u \in Range(levels) : Le(dist(w), dist(u))}
    IN  MinOf(best)

\* the conversion to the interval between the bounds of the scale of t
AsInterval(t, in) ==
    ConverterBallotToLevelsInterval(
        ToLevelsOptions(ScaleInterval(t.scale.low, t.scale.high),
                        t.borda_unordered_give_points), in, CandNone)

\* the levels of the interval conversion r, rounded
Rounded(t, r, s) ==
    IF Returned(r)
    THEN LevelsResult([c \in DOMAIN r.ballot.levels |-> PyRound(r.ballot.levels[c])],
                      r.ballot, t.scale, s)
    ELSE r

ConverterBallotToLevelsRange(t, in, s) == Rounded(t, AsInterval(t, in), s)

\* the levels of the interval conversion r, moved to the closest level
Closest(t, r, s) ==
    IF Returned(r)
    THEN LevelsResult([c \in DOMAIN r.ballot.levels |->
                          take_closest(t.scale.levels, r.ballot.levels[c])],
                      r.ballot, t.scale, s)
    ELSE r

ConverterBallotToLevelsListNumeric(t, in, s) == Closest(t, AsInterval(t, in), s)

\* the ranks of the range conversion r, as the levels at these ranks
Labelled(t, r, s) ==
    IF Returned(r)
    THEN LevelsResult([c \in DOMAIN r.ballot.levels |->
                          t.scale.levels[r.ballot.levels[c].n + 1]],
                      r.ballot, t.scale, s)
    ELSE r

ConverterBallotToLevelsListNonNumeric(t, in, s) ==
    Labelled(t,
             ConverterBallotToLevelsRange(
                 ToLevelsOptions(ScaleRange(PyInt(0), PyInt(Len(t.scale.levels) - 1)),
                                 t.borda_unordered_give_points), in, CandNone),
             s)

(***************************************************************************)
(* ConverterBallotToLevels(scale, borda_unordered_give_points): the        *)
(* constructor chooses the specialized converter by the class of scale.    *)
(***************************************************************************)
IsScaleInstance(sc, cls) ==
    IF cls = "ScaleFromList" THEN IsScaleFromList(sc) ELSE sc.type = cls

\* a variant that tests the class ScaleFromList exactly, not its subclasses
AuxConverterExactList(scale) ==
    IF scale.type = "ScaleInterval" THEN "Interval"
    ELSE IF scale.type = "ScaleRange" THEN "Range"
    ELSE IF scale.type = "ScaleFromList"
        THEN IF is_numeric(scale) THEN "ListNumeric" ELSE "ListNonNumeric"
    ELSE "raise"

\* __init__: the specialized converter chosen, or "raise".  The converter set
\* for scale=None is followed by the chain of tests on the class of scale.
AuxConverter(scale) ==
    LET for_none == IF scale = NoScale THEN "Interval" ELSE "unset"
    IN  IF IsScaleInstance(scale, "ScaleInterval") THEN "Interval"
        ELSE IF IsScaleInstance(scale, "ScaleRange") THEN "Range"
        ELSE IF IsScaleInstance(scale, "ScaleFromList")
            THEN IF is_numeric(scale) THEN "ListNumeric" ELSE "ListNonNumeric"
        ELSE "raise"

UnitInterval == ScaleInterval(PyFloat(0, 1), PyFloat(1, 1))

AuxCall(t, in, s) ==
    CASE AuxConverter(t.scale) = "Interval" -> ConverterBallotToLevelsInterval(t, in, s)
      [] AuxConverter(t.scale) = "Range" -> ConverterBallotToLevelsRange(t, in, s)
      [] AuxConverter(t.scale) = "ListNumeric" ->
            ConverterBallotToLevelsListNumeric(t, in, s)
      [] OTHER -> ConverterBallotToLevelsListNonNumeric(t, in, s)

\* construction, then the call; scale = NoScale stands for scale=None
ConverterBallotToLevels(t, in, s) ==
    IF AuxConverter(t.scale) = "raise" THEN Raise("NotImplementedError")
    ELSE IF t.scale = NoScale /\ in.tag = "ballot" /\ IsInstance(in.ballot, "BallotLevels")
        THEN Return(LevelsRestrict(in.ballot, s))
    ELSE AuxCall(t, in, s)

(***************************************************************************)
(* ConverterBallotToPlurality.  p holds the four priority options.         *)
(***************************************************************************)
PluralityOptions(order_priority, plurality_priority, veto_priority, one_name_priority) ==
    [order_priority |-> order_priority,
     plurality_priority |-> plurality_priority,
     veto_priority |-> veto_priority,
     one_name_priority |-> one_name_priority]

\* BallotPlurality(priority.choice(among), candidates=candidates)
PluralityOfChoice(priority, among, candidates) ==
    IF ChoiceRaises(priority, among) THEN Raise("ValueError")
    ELSE Return(BallotPlurality(Choice(priority, among, FALSE), candidates))

\* BallotOrder.first(priority): a choice in the first class, None without one
OrderFirst(b, priority) ==
    PluralityOfChoice(priority,
                      IF as_weak_order(b) = <<>> THEN {} ELSE as_weak_order(b)[1],
                      b.candidates)

\* BallotVeto.first(candidates, priority): a choice among the candidates
\* kept that are not the vetoed one
VetoFirst(b, s, priority) ==
    LET kept == IF s.none THEN b.candidates ELSE b.candidates \cap s.set
    IN  PluralityOfChoice(priority, kept \ {b.candidate}, kept)

\* the dispatch on the class of the ballot
PluralityOnBallot(p, b, s) ==
    IF IsInstance(b, "BallotPlurality")
        THEN OneNameRestrict(b, s, p.plurality_priority)
    ELSE IF IsInstance(b, "BallotVeto") THEN VetoFirst(b, s, p.veto_priority)
    ELSE IF IsInstance(b, "BallotOneName")
        THEN OneNameRestrict(BallotPlurality(b.candidate, b.candidates), s,
                             p.one_name_priority)
    ELSE IF IsInstance(b, "BallotOrder")
        THEN OrderFirst(RestrictAsOrder(b, s), p.order_priority)
    ELSE Raise("NotImplementedError")

\* the input goes through ConverterBallotGeneral() with candidates=None
ConverterBallotToPlurality(p, in, s) ==
    LET general == ConverterBallotGeneral(DefaultGeneral, in, CandNone)
    IN  IF Returned(general) THEN PluralityOnBallot(p, general.ballot, s)
        ELSE general

(***************************************************************************)
(* The calls explored: the ballots, the other objects, the candidates      *)
(* arguments and the converters.                                           *)
(***************************************************************************)
MaxDict == 2           \* the enumerated dictionaries grade the first MaxDict names

DictCands == {AllNames[i] : i \in 1 .. Min2(MaxDict, Len(AllNames))}

RECURSIVE WeakOrders(_)
WeakOrders(m) ==
    IF m = {} THEN { <<>> }
    ELSE UNION { { <<cl>> \o w : w \in WeakOrders(m \ cl) } : cl \in (SUBSET m) \ {{}} }

OrderBallots ==
    UNION { { BallotOrder(w, d) : w \in WeakOrders(m) } :
            <<m, d>> \in { md \in (SUBSET Cands) \X (SUBSET Cands) : md[1] \subseteq md[2] } }

OneNameBallots ==
    UNION { { BallotOneName(c, d), BallotPlurality(c, d), BallotVeto(c, d) } :
            <<c, d>> \in { cd \in (Cands \cup {None}) \X (SUBSET Cands) :
                           cd[1] = None \/ cd[1] \in cd[2] } }

Bad == PyStr(0)
Good == PyStr(1)
Medium == PyStr(2)

IntGrades == { PyInt(i) : i \in 0 .. MaxGrade }
FloatGrades == { PyFloat(i, 2) : i \in 0 .. MaxGrade }
StrGrades == { Bad, Medium, Good }

Dicts ==
    UNION { [m -> IntGrades] \cup [m -> FloatGrades] \cup [m -> StrGrades] :
            m \in SUBSET DictCands }

ExplicitScales ==
    { ScaleInterval(PyFloat(0, 1), PyFloat(MaxGrade, 1)),
      ScaleRange(PyInt(0), PyInt(MaxGrade)),
      ScaleFromList(<<Bad, Medium, Good>>),
      ScaleFromSet(IntGrades),
      ScaleGeneric }

\* the levels of a ballot lie in the domain of its scale; the declared
\* candidates are those graded, or these and all the others
LevelsBallots ==
    UNION { { BallotLevels(dd, d, sc) :
              sc \in { e \in ExplicitScales \cup {NoScale} :
                       \A c \in DOMAIN dd : InScale(e, dd[c]) } } :
            <<dd, d>> \in { p \in Dicts \X (SUBSET (Cands \cup DictCands)) :
                            p[2] \in {DOMAIN p[1], Cands \cup DictCands} } }

\* the ballots of the examples in the documentation of the converters
DocBallots ==
    { BallotOrder(<< {"a"}, {"b"}, {"c"} >>, {"a", "b", "c", "d", "e"}),
      BallotLevels([c \in {"a", "b"} |-> IF c = "a" THEN PyInt(100) ELSE PyInt(57)],
                   {"a", "b"}, ScaleRange(PyInt(0), PyInt(100))),
      BallotLevels([c \in {"a", "b"} |-> IF c = "a" THEN PyFloat(1, 1) ELSE PyFloat(1, 2)],
                   {"a", "b", "c"}, ScaleInterval(PyFloat(-1, 1), PyFloat(1, 1))) }

Ballots == OrderBallots \cup OneNameBallots \cup LevelsBallots \cup DocBallots

Strs ==
    { InStr("a", <<"a">>), InStr("b", <<"b">>),
      InStr("a > b", <<"a", ">", "b">>), InStr("b ~ a", <<"b", "~", "a">>),
      InStr("a ~ b > c", <<"a", "~", "b", ">", "c">>),
      InStr("a > b > c", <<"a", ">", "b", ">", "c">>),
      InStr("c > a ~ b", <<"c", ">", "a", "~", "b">>),
      InStr("a >", <<"a", ">">>), InStr("> a", <<">", "a">>),
      InStr("a > ~ b", <<"a", ">", "~", "b">>) }

Lists == { InList(w) : w \in UNION { WeakOrders(m) : m \in SUBSET Cands } }

Scalars == { InScalar("42") }

GeneralInputs ==
    { InBallot(b) : b \in Ballots } \cup { InDict(d) : d \in Dicts }
    \cup Strs \cup Lists \cup Scalars

ToLevelsInputs == { InBallot(b) : b \in Ballots } \cup Strs \cup Scalars

CandArgs == {CandNone} \cup { CandSet(s) : s \in SUBSET Cands }

\* the candidates argument of the examples in the documentation
DocCandArgs == { CandSet({"b", "c", "d"}) }

Priorities == {UNAMBIGUOUS, ASCENDING}

TargetScales ==
    { UnitInterval,
      ScaleInterval(PyFloat(-1, 1), PyFloat(3, 1)),
      ScaleInterval(PyInt(0), PyInt(10)) }

\* the scale of a ballot whose scale is an interval
OwnScales(in) ==
    IF in.tag = "ballot" /\ in.ballot.variant = "BallotLevels"
       /\ BallotScale(in.ballot).type = "ScaleInterval"
    THEN {BallotScale(in.ballot)} ELSE {}

ToLevelsScales ==
    { NoScale, UnitInterval,
      ScaleFromSet({PyInt(0), PyInt(2), PyInt(4), PyInt(10)}), ScaleGeneric }

Converter(kind, g, t) == [kind |-> kind, g |-> g, t |-> t]

Pending == Raise("pending")

\* what the read of an attribute gave; nothing was read yet
Read(attr, value) == [attr |-> attr, value |-> value]
NoRead == Read("none", <<>>)

IdleBallot == cands2 = CandNone /\ direct = Pending

\* no instance was built
NoInstance == [class |-> "None"]

IdleObj ==
    /\ scorer = NoInstance /\ rule = NoInstance
    /\ loads = 0 /\ changed = FALSE /\ warnings = 0

(***************************************************************************)
(* The state machine: a call is chosen, then made; the general converter   *)
(* is then called again on the ballot it returned.                         *)
(***************************************************************************)
InitGeneral ==
    /\ pc = "start"
    /\ x \in GeneralInputs
    /\ cands \in CandArgs \cup DocCandArgs
    /\ \E pp \in Priorities, vp \in Priorities, op \in Priorities :
          conv = Converter("General", GeneralOptions(pp, vp, op),
                           ToLevelsOptions(NoScale, TRUE))
    /\ out = Pending
    /\ first = Pending
    /\ IdleBallot
    /\ read = NoRead
    /\ IdleObj

InitToLevels ==
    /\ pc = "start"
    /\ x \in ToLevelsInputs
    /\ cands \in CandArgs
    /\ \/ \E sc \in TargetScales \cup OwnScales(x), bugp \in BOOLEAN :
             conv = Converter("ToLevelsInterval", DefaultGeneral,
                              ToLevelsOptions(sc, bugp))
       \/ \E sc \in ToLevelsScales, bugp \in BOOLEAN :
             conv = Converter("ToLevels", DefaultGeneral, ToLevelsOptions(sc, bugp))
    /\ out = Pending
    /\ first = Pending
    /\ IdleBallot
    /\ read = NoRead
    /\ IdleObj

CallGeneral ==
    /\ pc = "start"
    /\ conv.kind = "General"
    /\ out' = ConverterBallotGeneral(conv.g, x, cands)
    /\ pc' = "done"
    /\ UNCHANGED <<conv, x, cands, first>>
    /\ UNCHANGED <<read, ballotVars, objVars>>

CallToLevelsInterval ==
    /\ pc = "start"
    /\ conv.kind = "ToLevelsInterval"
    /\ out' = ConverterBallotToLevelsInterval(conv.t, x, cands)
    /\ pc' = "done"
    /\ UNCHANGED <<conv, x, cands, first>>
    /\ UNCHANGED <<read, ballotVars, objVars>>

CallToLevels ==
    /\ pc = "start"
    /\ conv.kind = "ToLevels"
    /\ out' = ConverterBallotToLevels(conv.t, x, cands)
    /\ pc' = "done"
    /\ UNCHANGED <<conv, x, cands, first>>
    /\ UNCHANGED <<read, ballotVars, objVars>>

\* the converter applied to its own result, with the same candidates
CallGeneralAgain ==
    /\ pc = "done"
    /\ conv.kind = "General"
    /\ Returned(out)
    /\ first' = out
    /\ out' = ConverterBallotGeneral(conv.g, InBallot(out.ballot), cands)
    /\ pc' = "again"
    /\ UNCHANGED <<conv, x, cands>>
    /\ UNCHANGED <<read, ballotVars, objVars>>

NextGeneral == CallGeneral \/ CallGeneralAgain

NextToLevels == CallToLevelsInterval \/ CallToLevels

\* the general converter
SpecGeneral == InitGeneral /\ [][NextGeneral]_vars

\* the converters to levels
SpecToLevels == InitToLevels /\ [][NextToLevels]_vars

\* ConverterBallotToLevelsInterval(scale, borda_unordered_give_points) and
\* the input and candidates of its call
InitToInterval ==
    /\ pc = "start"
    /\ x \in ToLevelsInputs
    /\ cands \in CandArgs
    /\ \E sc \in { UnitInterval, ScaleInterval(PyFloat(-1, 1), PyFloat(3, 1)) },
          bugp \in BOOLEAN :
             conv = Converter("ToLevelsInterval", DefaultGeneral,
                              ToLevelsOptions(sc, bugp))
    /\ out = Pending
    /\ first = Pending
    /\ IdleBallot
    /\ read = NoRead
    /\ IdleObj

NextToInterval == CallToLevelsInterval

\* the converter to an interval, called with and without candidates
SpecToInterval == InitToInterval /\ [][NextToInterval]_vars

(***************************************************************************)
(* Calls on a ballot: restrict(S), then restrict(T) on the result, and     *)
(* restrict(S & T) on the ballot itself; reads of as_weak_order and scale. *)
(***************************************************************************)
\* the ballot of the example in the documentation of BallotLevels
DocGrades ==
    BallotLevels([c \in {"a", "b", "c"} |-> IF c = "a" THEN Good ELSE Bad],
                 {"a", "b", "c"}, ScaleFromList(<<Bad, Medium, Good>>))

\* a ballot whose levels are an int and a float, and no scale given
MixedGrades ==
    BallotLevels([c \in {"a", "b"} |-> IF c = "a" THEN PyInt(1) ELSE PyFloat(1, 2)],
                 {"a", "b"}, NoScale)

RestrictedBallots == OrderBallots \cup LevelsBallots \cup {DocGrades, MixedGrades}

InitBallot ==
    /\ pc = "start"
    /\ x \in { InBallot(b) : b \in RestrictedBallots }
    /\ cands \in CandArgs
    /\ cands2 \in CandArgs
    /\ conv = Converter("None", DefaultGeneral, ToLevelsOptions(NoScale, TRUE))
    /\ out = Pending
    /\ first = Pending
    /\ direct = Pending
    /\ read = NoRead
    /\ IdleObj

\* the candidates S & T; None stands for no restriction
Both(s, t) ==
    IF s.none THEN t ELSE IF t.none THEN s ELSE CandSet(s.set \cap t.set)

\* x.restrict(S)
Restrict ==
    /\ pc = "start"
    /\ first' = Return(RestrictAsOrder(x.ballot, cands))
    /\ pc' = "done"
    /\ UNCHANGED <<conv, x, cands, cands2, out, direct, read>>
    /\ UNCHANGED objVars

\* x.restrict(S).restrict(T)
RestrictAgain ==
    /\ pc = "done"
    /\ out' = Return(RestrictAsOrder(first.ballot, cands2))
    /\ pc' = "again"
    /\ UNCHANGED <<conv, x, cands, cands2, first, direct, read>>
    /\ UNCHANGED objVars

\* x.restrict(S & T)
RestrictBoth ==
    /\ pc = "again"
    /\ direct' = Return(RestrictAsOrder(x.ballot, Both(cands, cands2)))
    /\ pc' = "both"
    /\ UNCHANGED <<conv, x, cands, cands2, out, first, read>>
    /\ UNCHANGED objVars

\* x.as_weak_order
ReadAsWeakOrder ==
    /\ pc = "start"
    /\ read' = Read("as_weak_order", as_weak_order(x.ballot))
    /\ pc' = "read"
    /\ UNCHANGED <<conv, x, cands, cands2, out, first, direct>>
    /\ UNCHANGED objVars

\* x.scale, of a BallotLevels
ReadScale ==
    /\ pc = "start"
    /\ x.ballot.variant = "BallotLevels"
    /\ read' = Read("scale", BallotScale(x.ballot))
    /\ pc' = "read"
    /\ UNCHANGED <<conv, x, cands, cands2, out, first, direct>>
    /\ UNCHANGED objVars

NextBallot ==
    Restrict \/ RestrictAgain \/ RestrictBoth \/ ReadAsWeakOrder \/ ReadScale

\* the ballots
SpecBallot == InitBallot /\ [][NextBallot]_vars

(***************************************************************************)
(* Calls of ConverterBallotToPlurality.                                    *)
(***************************************************************************)
ToPluralityInputs ==
    { InBallot(b) : b \in Ballots \cup {DocGrades} } \cup { InDict(d) : d \in Dicts }
    \cup Strs \cup Scalars

InitToPlurality ==
    /\ pc = "start"
    /\ x \in ToPluralityInputs
    /\ cands \in CandArgs
    /\ \E op \in Priorities, pp \in Priorities, vp \in Priorities, np \in Priorities :
          conv = [Converter("ToPlurality", DefaultGeneral, ToLevelsOptions(NoScale, TRUE))
                  EXCEPT !.g = PluralityOptions(op, pp, vp, np)]
    /\ out = Pending
    /\ first = Pending
    /\ IdleBallot
    /\ read = NoRead
    /\ IdleObj

CallToPlurality ==
    /\ pc = "start"
    /\ conv.kind = "ToPlurality"
    /\ out' = ConverterBallotToPlurality(conv.g, x, cands)
    /\ pc' = "done"
    /\ UNCHANGED <<conv, x, cands, first>>
    /\ UNCHANGED <<read, ballotVars, objVars>>

NextToPlurality == CallToPlurality

\* the converter to plurality ballots
SpecToPlurality == InitToPlurality /\ [][NextToPlurality]_vars

(***************************************************************************)
(* Scorer and ScorerBucklin.  An instance holds its options, the arguments *)
(* of the last call and the values memoized by its cached properties.      *)
(* The options unordered_receive_points and absent_receive_points are      *)
(* "True", "False" or "None".                                              *)
(***************************************************************************)
NoCache == [a \in {} |-> <<>>]

\* DeleteCacheMixin.delete_cache: forget every memoized value
delete_cache(inst) == [inst EXCEPT !.cache = NoCache]

\* ScorerBucklin(scale=None, k, unordered_receive_points,
\* absent_receive_points), no ballot given: nothing is loaded
ScorerBucklin(k, unordered_receive_points, absent_receive_points) ==
    [class |-> "ScorerBucklin", scale |-> ScaleGeneric, k |-> k,
     unordered_receive_points |-> unordered_receive_points,
     absent_receive_points |-> absent_receive_points,
     ballot_ |-> NoBallot, voter_ |-> None, candidates_ |-> CandNone,
     cache |-> NoCache]

\* Scorer.__call__(ballot, voter, candidates)
ScorerCall(inst, ballot, voter, candidates) ==
    delete_cache([inst EXCEPT !.ballot_ = ballot, !.voter_ = voter,
                              !.candidates_ = candidates])

\* what the computation of an attribute gives: a value, or an exception
Value(v) == [exc |-> "none", value |-> v]
Failure(e) == [exc |-> e, value |-> <<>>]

\* a variant that gives a whole point to every member of a class as long as
\* some points remain
GivePointsWhole(class, points_remaining) ==
    IF Lt(PyInt(0), points_remaining)
    THEN [scores |-> [c \in class |-> PyFloat(1, 1)],
          points_remaining |-> PyFloat(0, 1)]
    ELSE [scores |-> [c \in class |-> PyFloat(0, 1)],
          points_remaining |-> PyFloat(0, 1)]

\* the points given to the members of one class, and the points remaining
GivePoints(class, points_remaining) ==
    IF Le(PyInt(Cardinality(class)), points_remaining)
    THEN [scores |-> [c \in class |-> PyFloat(1, 1)],
          points_remaining |-> Sub(points_remaining, PyInt(Cardinality(class)))]
    ELSE [scores |-> [c \in class |->
                         TrueDiv(points_remaining, PyInt(Cardinality(class)))],
          points_remaining |-> PyFloat(0, 1)]

\* the loop on the indifference classes, from class i on
RECURSIVE OrderedPoints(_, _, _)
OrderedPoints(order, i, acc) ==
    IF i > Len(order) THEN acc
    ELSE LET given == GivePoints(order[i], acc.points_remaining)
         IN  OrderedPoints(order, i + 1,
                           [scores |-> given.scores @@ acc.scores,
                            points_remaining |-> given.points_remaining])

\* the candidates of a policy: 0 when False, a class when True, no entry
\* when None
PolicyPoints(policy, class, acc) ==
    IF policy = "False"
    THEN [acc EXCEPT !.scores = [c \in class |-> PyFloat(0, 1)] @@ acc.scores]
    ELSE IF policy = "True"
    THEN LET given == GivePoints(class, acc.points_remaining)
         IN  [scores |-> given.scores @@ acc.scores,
              points_remaining |-> given.points_remaining]
    ELSE acc

\* a variant in which the absent candidates are served before the unordered
BucklinScoresAbsentFirst(inst) ==
    LET b == inst.ballot_
        start == [scores |-> NoCache, points_remaining |-> PyInt(inst.k)]
        ordered == OrderedPoints(as_weak_order(b), 1, start)
        absent == PolicyPoints(inst.absent_receive_points,
                               inst.candidates_.set \ b.candidates, ordered)
        unordered == PolicyPoints(inst.unordered_receive_points,
                                  candidates_not_in_b(b), absent)
    IN  IF b = NoBallot THEN Failure("AttributeError")
        ELSE IF inst.absent_receive_points # "None" /\ inst.candidates_.none
            THEN Failure("TypeError")
        ELSE Value(unordered.scores)

\* ScorerBucklin.scores_, computed
BucklinScores(inst) ==
    LET b == inst.ballot_
        start == [scores |-> NoCache, points_remaining |-> PyInt(inst.k)]
        ordered == OrderedPoints(as_weak_order(b), 1, start)
        unordered == PolicyPoints(inst.unordered_receive_points,
                                  candidates_not_in_b(b), ordered)
        absent == PolicyPoints(inst.absent_receive_points,
                               inst.candidates_.set \ b.candidates, unordered)
    IN  IF b = NoBallot THEN Failure("AttributeError")
        ELSE IF inst.absent_receive_points # "None" /\ inst.candidates_.none
            THEN Failure("TypeError")
        ELSE Value(absent.scores)

\* cached_property: the memoized value if there is one
Cached(inst, attr, computed) ==
    IF attr \in DOMAIN inst.cache THEN inst.cache[attr] ELSE computed

\* cached_property: a value that was computed is memoized, a failure is not
Memoize(inst, attr, computed) ==
    IF attr \in DOMAIN inst.cache \/ computed.exc # "none" THEN inst
    ELSE [inst EXCEPT !.cache = (attr :> computed) @@ inst.cache]

(***************************************************************************)
(* Profile, Rule and Matrix.  A profile is a sequence of entries (ballot,  *)
(* weight, voter).  An instance of Rule or Matrix holds its converter, the *)
(* profiles and the candidates of the last call, and the values memoized   *)
(* by its cached properties.                                               *)
(***************************************************************************)
Entry(ballot, weight, voter) == [ballot |-> ballot, weight |-> weight, voter |-> voter]

\* [converter(b, candidates) for b in ballots]: what each conversion gives
ConvertAll(g, ballots, s) ==
    [i \in 1 .. Len(ballots) |-> ConverterBallotGeneral(g, ballots[i], s)]

\* the exception of the first conversion that raises, if any
FirstFailure(results) ==
    IF \A i \in 1 .. Len(results) : Returned(results[i]) THEN "none"
    ELSE results[CHOOSE i \in 1 .. Len(results) :
                     /\ ~ Returned(results[i])
                     /\ \A j \in 1 .. i - 1 : Returned(results[j])].exc

\* the entries with the ballots that the conversions gave
WithBallots(entries, results) ==
    [i \in 1 .. Len(entries) |-> [entries[i] EXCEPT !.ballot = results[i].ballot]]

Raw(entries) == [i \in 1 .. Len(entries) |-> entries[i].ballot]
AsInputs(profile) == [i \in 1 .. Len(profile) |-> InBallot(profile[i].ballot)]

\* Profile(ballots, weights, voters): the ballots given go through
\* ConverterBallotGeneral(); an entry of the argument holds one raw ballot
Profile(entries) ==
    WithBallots(entries, ConvertAll(DefaultGeneral, Raw(entries), CandNone))

\* set().union(*[b.candidates for b in profile])
UnionOfCandidates(profile) ==
    UNION { profile[i].ballot.candidates : i \in 1 .. Len(profile) }

\* the candidates of the election: those given, or those of the ballots
Election(profile, s) == IF s.none THEN UnionOfCandidates(profile) ELSE s.set

\* a variant of the check that warns when every ballot disagrees
CheckProfileEvery(profile, candidates) ==
    \A i \in 1 .. Len(profile) : profile[i].ballot.candidates # candidates

\* Rule._check_profile, Matrix._check_profile: is the warning logged
check_profile(profile, candidates) ==
    \E i \in 1 .. Len(profile) : profile[i].ballot.candidates # candidates

\* Rule(tie_break, converter) or Matrix(converter), no ballots given; the
\* converter is a ConverterBallotGeneral with the options g.  The profiles
\* and candidates_ are None until a call completes (loaded): reading an
\* accessor before that fails on None
Instance(class, g, tie_break) ==
    [class |-> class, converter |-> g, tie_break |-> tie_break,
     scorer |-> NoInstance, default_median |-> PyNone,
     profile_original_ |-> <<>>, profile_converted_ |-> <<>>,
     candidates_ |-> CandNone, loaded |-> FALSE, cache |-> NoCache]

\* what a call gives: the instance after it, the exception raised if any,
\* and whether a warning was logged
Outcome(inst, exc, warned) == [inst |-> inst, exc |-> exc, warned |-> warned]

\* a variant of the end of the call that keeps the memoized values
StoreKeepCache(inst, original, converted, s) ==
    Outcome([inst EXCEPT !.profile_original_ = original,
                         !.profile_converted_ = converted,
                         !.candidates_ = CandSet(Election(converted, s)),
                         !.loaded = TRUE],
            "none", check_profile(converted, Election(converted, s)))

\* the end of Rule.__call__ and of Matrix.__call__, the conversions done:
\* the profiles and candidates_ are stored, the profile is checked and the
\* memoized values are deleted
Store(inst, original, converted, s) ==
    Outcome(delete_cache([inst EXCEPT !.profile_original_ = original,
                                      !.profile_converted_ = converted,
                                      !.candidates_ = CandSet(Election(converted, s)),
                                      !.loaded = TRUE]),
            "none", check_profile(converted, Election(converted, s)))

\* the converted profile is built from what the converter gave; if the
\* converter raised, the call ends there, the original profile stored
Convert(inst, original, s, results) ==
    IF FirstFailure(results) # "none"
    THEN Outcome([inst EXCEPT !.profile_original_ = original],
                 FirstFailure(results), FALSE)
    ELSE Store(inst, original, WithBallots(original, results), s)

\* the original profile is built from what the ballots given are as ballots
Original(inst, entries, s, results) ==
    IF FirstFailure(results) # "none"
    THEN Outcome(inst, FirstFailure(results), FALSE)
    ELSE Convert(inst, WithBallots(entries, results), s,
                 ConvertAll(inst.converter, AsInputs(WithBallots(entries, results)), s))

\* Rule.__call__, Matrix.__call__ (ballots, weights, voters, candidates)
RuleCall(inst, entries, s) ==
    Original(inst, entries, s, ConvertAll(DefaultGeneral, Raw(entries), CandNone))

\* Rule.n_candidates_
n_candidates_(inst) ==
    IF ~ inst.loaded THEN Failure("TypeError")
    ELSE Value(Cardinality(inst.candidates_.set))

\* the names of a set in ascending order
RECURSIVE SortedNames(_)
SortedNames(s) ==
    IF s = {} THEN <<>> ELSE <<FirstName(s)>> \o SortedNames(s \ {FirstName(s)})

\* Matrix.candidates_as_list_
candidates_as_list_(inst) ==
    IF ~ inst.loaded THEN Failure("TypeError")
    ELSE Value(SortedNames(inst.candidates_.set))

\* the cached property of a Rule or of a Matrix that is read
Attribute(inst, attr) ==
    IF attr = "n_candidates_" THEN n_candidates_(inst) ELSE candidates_as_list_(inst)

(***************************************************************************)
(* RuleMajorityJudgment.  Its scorer is a ScorerLevels: the scores of a    *)
(* ballot are the levels that the ballot gives.                            *)
(***************************************************************************)
ScorerLevels(scale) == [class |-> "ScorerLevels", scale |-> scale]

\* RuleMajorityJudgment(converter=ConverterBallotGeneral(), scorer=
\* ScorerLevels(scale=scale), tie_break=tie_break, default_median=...)
RuleMajorityJudgment(scale, tie_break, default_median) ==
    [Instance("RuleMajorityJudgment", DefaultGeneral, tie_break)
        EXCEPT !.scorer = ScorerLevels(scale), !.default_median = default_median]

\* levels_[c] and weights_[c]: the level and the weight of each ballot of
\* the profile, from the i-th on, that gives a level to c
RECURSIVE Received(_, _, _)
Received(profile, c, i) ==
    IF i > Len(profile) THEN <<>>
    ELSE (IF c \in DOMAIN profile[i].ballot.levels
          THEN << [level |-> profile[i].ballot.levels[c], weight |-> profile[i].weight] >>
          ELSE <<>>)
         \o Received(profile, c, i + 1)

\* where a level goes in a sorted list: after the levels that are not
\* higher in the scale
Place(sc, sorted, level) ==
    CHOOSE k \in 1 .. Len(sorted) + 1 :
        /\ \A j \in 1 .. k - 1 : ~ lt(sc, level, sorted[j].level)
        /\ k <= Len(sorted) => lt(sc, level, sorted[k].level)

InsertAt(sorted, one, k) ==
    SubSeq(sorted, 1, k - 1) \o <<one>> \o SubSeq(sorted, k, Len(sorted))

\* scale.argsort(levels_[c]) and the two lists reordered by it: the first n
\* levels received, from the lowest to the highest, with their weights,
\* levels that compare equal keeping their order
RECURSIVE argsort(_, _, _)
argsort(sc, received, n) ==
    IF n = 0 THEN <<>>
    ELSE InsertAt(argsort(sc, received, n - 1), received[n],
                  Place(sc, argsort(sc, received, n - 1), received[n].level))

\* sum of the weights at the positions kept, from position i on
RECURSIVE SumWhere(_, _, _)
SumWhere(sorted, kept, i) ==
    IF i > Len(sorted) THEN PyInt(0)
    ELSE Add(IF i \in kept THEN sorted[i].weight ELSE PyInt(0),
             SumWhere(sorted, kept, i + 1))

\* sum(weights_[c])
Sum(sorted) == SumWhere(sorted, 1 .. Len(sorted), 1)

\* a variant of the median: the first level whose cumulative weight exceeds
\* half of the total
RECURSIVE MedianAbove(_, _, _, _)
MedianAbove(sorted, half, i, cumulative) ==
    IF i > Len(sorted) THEN sorted[Len(sorted)].level
    ELSE IF Lt(half, Add(cumulative, sorted[i].weight)) THEN sorted[i].level
    ELSE MedianAbove(sorted, half, i + 1, Add(cumulative, sorted[i].weight))

\* the loop of scores_ that looks for the median: the first level, in the
\* sorted levels, whose cumulative weight reaches half of the total
RECURSIVE Median(_, _, _, _)
Median(sorted, half, i, cumulative) ==
    IF i > Len(sorted) THEN PyNone
    ELSE IF Le(half, Add(cumulative, sorted[i].weight)) THEN sorted[i].level
    ELSE Median(sorted, half, i + 1, Add(cumulative, sorted[i].weight))

\* the tuple of a candidate, from its median, p, q and its total weight
ScoreTuple(median, p, q, total_weight) ==
    IF Lt(q, p)
    THEN <<median, TrueDiv(p, total_weight), TrueDiv(Sub(PyInt(0), q), total_weight)>>
    ELSE <<median, TrueDiv(Sub(PyInt(0), q), total_weight), TrueDiv(p, total_weight)>>

\* p and q: the weights of the levels above and below the median
AroundMedian(sc, sorted, median) ==
    ScoreTuple(median,
               SumWhere(sorted, { i \in 1 .. Len(sorted) : gt(sc, sorted[i].level, median) }, 1),
               SumWhere(sorted, { i \in 1 .. Len(sorted) : lt(sc, sorted[i].level, median) }, 1),
               Sum(sorted))

\* the score of a candidate from the sorted levels it received
ScoreOf(inst, sorted) ==
    IF Len(sorted) = 0 THEN <<inst.default_median, PyInt(0), PyInt(0)>>
    ELSE AroundMedian(inst.scorer.scale, sorted,
                      Median(sorted, TrueDiv(Sum(sorted), PyInt(2)), 1, PyInt(0)))

\* the levels and the weights that candidate c received, sorted by level
SortedLevels(inst, c) ==
    argsort(inst.scorer.scale, Received(inst.profile_converted_, c, 1),
            Len(Received(inst.profile_converted_, c, 1)))

ZeroTotal(sorted) == Len(sorted) > 0 /\ NumEq(Sum(sorted), PyInt(0))

\* the score of candidate c in RuleMajorityJudgment.scores_
MajorityScore(inst, c) == ScoreOf(inst, SortedLevels(inst, c))

\* RuleMajorityJudgment.scores_
MajorityScores(inst) ==
    IF ~ inst.loaded THEN Failure("TypeError")
    ELSE IF \E c \in inst.candidates_.set : ZeroTotal(SortedLevels(inst, c))
    THEN Failure("ZeroDivisionError")
    ELSE Value([c \in inst.candidates_.set |-> MajorityScore(inst, c)])

\* two items of a score are equal
Same(v, w) ==
    \/ v.k = "None" /\ w.k = "None"
    \/ v.k # "None" /\ w.k # "None" /\ NumEq(v, w)

\* RuleMajorityJudgment.compare_scores
compare_scores(inst, one, another) ==
    IF Same(one[1], another[1]) /\ NumEq(one[2], another[2])
       /\ NumEq(one[3], another[3]) THEN 0
    ELSE IF lt(inst.scorer.scale, one[1], another[1]) THEN -1
    ELSE IF gt(inst.scorer.scale, one[1], another[1]) THEN 1
    ELSE IF Lt(one[2], another[2])
            \/ (NumEq(one[2], another[2]) /\ Lt(one[3], another[3])) THEN -1
    ELSE 1

\* RuleMajorityJudgment.compare_scores as a call: scale.lt and scale.gt
\* compare the two medians, which raises when one of them is not a level of
\* the scale, as the default median None is
CompareScores(inst, one, another) ==
    IF Same(one[1], another[1]) /\ NumEq(one[2], another[2])
       /\ NumEq(one[3], another[3]) THEN Value(0)
    ELSE IF one[1].k = "None" \/ another[1].k = "None"
    THEN Failure(IF IsScaleFromList(inst.scorer.scale) THEN "KeyError" ELSE "TypeError")
    ELSE Value(compare_scores(inst, one, another))

\* the candidates whose score no other score beats
Best(inst, scores) ==
    { c \in DOMAIN scores :
      \A d \in DOMAIN scores : compare_scores(inst, scores[c], scores[d]) >= 0 }

\* Rule.cowinners_, the first class of the order that compare_scores gives
cowinners_(inst) == Best(inst, MajorityScores(inst).value)

\* the order has to compare a level with the default median None
Incomparable(scores) ==
    \E c, d \in DOMAIN scores : scores[c][1].k = "None" /\ scores[d][1].k # "None"

\* tie_break.choice(cowinners_)
Elect(tie_break, best) ==
    IF ChoiceRaises(tie_break, best) THEN Failure("ValueError")
    ELSE Value(Choice(tie_break, best, FALSE))

\* the winner, from what scores_ gives
WinnerOf(inst, scores) ==
    IF scores.exc # "none" THEN Failure(scores.exc)
    ELSE IF Incomparable(scores.value)
    THEN Failure(IF IsScaleFromList(inst.scorer.scale) THEN "KeyError" ELSE "TypeError")
    ELSE Elect(inst.tie_break, Best(inst, scores.value))

\* Rule.winner_
winner_(inst) == WinnerOf(inst, MajorityScores(inst))

(***************************************************************************)
(* The accessors that Rule derives from order_, the weak order that a      *)
(* subclass computes: a list of classes of candidates, the best first.     *)
(* Priority.sort(x) gives the names in ascending order; UNAMBIGUOUS raises *)
(* when x has several members.                                             *)
(***************************************************************************)
\* Rule.cowinners_: order_[0]
OrderCowinners(order) ==
    IF Len(order) = 0 THEN Failure("IndexError") ELSE Value(order[1])

\* Rule.winner_: tie_break.choice(cowinners_)
OrderWinner(tie_break, order) ==
    IF Len(order) = 0 THEN Failure("IndexError") ELSE Elect(tie_break, order[1])

\* a variant of cotrailers_ that reads the class after the first one
CotrailersSecond(order) ==
    IF Len(order) < 2 THEN Failure("IndexError") ELSE Value(order[2])

\* Rule.cotrailers_: order_[-1]
cotrailers_(order) ==
    IF Len(order) = 0 THEN Failure("IndexError") ELSE Value(order[Len(order)])

\* tie_break.choice(cotrailers_, reverse=True)
ElectLast(tie_break, worst) ==
    IF ChoiceRaises(tie_break, worst) THEN Failure("ValueError")
    ELSE Value(Choice(tie_break, worst, TRUE))

\* Rule.trailer_
trailer_(tie_break, order) ==
    IF cotrailers_(order).exc # "none" THEN cotrailers_(order)
    ELSE ElectLast(tie_break, cotrailers_(order).value)

\* the classes from the i-th on, each one sorted by the tie-break
RECURSIVE SortedClasses(_, _)
SortedClasses(order, i) ==
    IF i > Len(order) THEN <<>>
    ELSE SortedNames(order[i]) \o SortedClasses(order, i + 1)

\* Rule.strict_order_
strict_order_(tie_break, order) ==
    IF \E i \in 1 .. Len(order) : ChoiceRaises(tie_break, order[i])
    THEN Failure("ValueError")
    ELSE Value(SortedClasses(order, 1))

(***************************************************************************)
(* MatrixWeightedMajority and RuleSimplifiedDodgson.  The coefficient of   *)
(* (c, d) in the matrix is the share of the weight of the voters who rank  *)
(* c above d (a tie counts for half); when antisymmetric, the share of     *)
(* those who rank d above c is taken away.                                 *)
(***************************************************************************)
\* MatrixWeightedMajority(converter=ConverterBallotGeneral(), antisymmetric=...)
MatrixWeightedMajority(antisymmetric) ==
    Instance("MatrixWeightedMajority", DefaultGeneral, UNAMBIGUOUS)
    @@ [antisymmetric |-> antisymmetric]

\* RuleSimplifiedDodgson(converter=ConverterBallotGeneral(), tie_break=...):
\* matrix_weighted_majority is MatrixWeightedMajority(antisymmetric=True)
RuleSimplifiedDodgson(tie_break) ==
    Instance("RuleSimplifiedDodgson", DefaultGeneral, tie_break)
    @@ [matrix_weighted_majority |-> MatrixWeightedMajority(TRUE)]

\* the ballot ranks both candidates, c above d
Above(ballot, c, d) ==
    /\ {c, d} \subseteq candidates_in_b(ballot)
    /\ ClassOf(as_weak_order(ballot), c) < ClassOf(as_weak_order(ballot), d)

\* the ballot ranks both candidates in the same class
Tied(ballot, c, d) ==
    /\ {c, d} \subseteq candidates_in_b(ballot)
    /\ ClassOf(as_weak_order(ballot), c) = ClassOf(as_weak_order(ballot), d)

\* what one ballot of weight w adds to the coefficient of (c, d)
Duel(antisymmetric, ballot, w, c, d) ==
    IF Above(ballot, c, d) THEN w
    ELSE IF Above(ballot, d, c) /\ antisymmetric THEN Sub(PyInt(0), w)
    ELSE IF Tied(ballot, c, d) /\ ~ antisymmetric THEN TrueDiv(w, PyInt(2))
    ELSE PyInt(0)

\* the sum over the ballots of the profile, from the i-th on
RECURSIVE Duels(_, _, _, _, _)
Duels(antisymmetric, profile, c, d, i) ==
    IF i > Len(profile) THEN PyInt(0)
    ELSE Add(Duel(antisymmetric, profile[i].ballot, profile[i].weight, c, d),
             Duels(antisymmetric, profile, c, d, i + 1))

\* the total weight of the profile, from the i-th ballot on
RECURSIVE TotalWeight(_, _)
TotalWeight(profile, i) ==
    IF i > Len(profile) THEN PyInt(0)
    ELSE Add(profile[i].weight, TotalWeight(profile, i + 1))

\* MatrixWeightedMajority.as_dict_
as_dict_(matrix) ==
    [pair \in matrix.candidates_.set \X matrix.candidates_.set |->
        IF pair[1] = pair[2] THEN PyInt(0)
        ELSE TrueDiv(Duels(matrix.antisymmetric, matrix.profile_converted_,
                           pair[1], pair[2], 1),
                     TotalWeight(matrix.profile_converted_, 1))]

\* the entries of a profile, as the ballots given to another call
AsEntries(profile) ==
    [i \in 1 .. Len(profile) |-> [profile[i] EXCEPT !.ballot = InBallot(@)]]

\* what a call returns, as the value of the property that made it
Called(outcome) ==
    IF outcome.exc # "none" THEN Failure(outcome.exc) ELSE Value(outcome.inst)

\* RuleSimplifiedDodgson.matrix_weighted_majority_: the matrix, called on
\* the converted profile of the rule
matrix_weighted_majority_(inst) ==
    IF ~ inst.loaded THEN Failure("TypeError")
    ELSE Called(RuleCall(inst.matrix_weighted_majority,
                         AsEntries(inst.profile_converted_), CandNone))

\* a variant of the scores that sums every coefficient of the row
RECURSIVE RowSum(_, _, _)
RowSum(as_dict, c, names) ==
    IF names = <<>> THEN PyInt(0)
    ELSE Add(as_dict[<<c, Head(names)>>], RowSum(as_dict, c, Tail(names)))

\* sum([v for (i, j), v in as_dict if i == c and j != c and v < 0]), over
\* the names listed
RECURSIVE NegativeSum(_, _, _)
NegativeSum(as_dict, c, names) ==
    IF names = <<>> THEN PyInt(0)
    ELSE Add(IF Head(names) # c /\ Lt(as_dict[<<c, Head(names)>>], PyInt(0))
             THEN as_dict[<<c, Head(names)>>] ELSE PyInt(0),
             NegativeSum(as_dict, c, Tail(names)))

\* the scores, from the matrix that matrix_weighted_majority_ gave
DodgsonScoresOf(matrix) ==
    IF matrix.exc # "none" THEN Failure(matrix.exc)
    ELSE Value([c \in matrix.value.candidates_.set |->
                   NegativeSum(as_dict_(matrix.value), c,
                               SortedNames(matrix.value.candidates_.set))])

\* RuleSimplifiedDodgson.scores_
DodgsonScores(inst) == DodgsonScoresOf(matrix_weighted_majority_(inst))

\* the candidates whose score is the highest
BestScores(scores) ==
    { c \in DOMAIN scores : \A d \in DOMAIN scores : Le(scores[d], scores[c]) }

\* the winner of a rule with numeric scores: the choice of the tie-break
\* among the candidates with the best score
NumWinnerOf(inst, scores) ==
    IF scores.exc # "none" THEN Failure(scores.exc)
    ELSE IF DOMAIN scores.value = {} THEN Failure("IndexError")
    ELSE Elect(inst.tie_break, BestScores(scores.value))

(***************************************************************************)
(* RuleBlack: a sequential tie-break of RuleCondorcet, whose order_ puts   *)
(* the Condorcet winner, if there is one, before the other candidates, and *)
(* of RuleBorda, whose order_ sorts the candidates by their Borda score.   *)
(***************************************************************************)
\* RuleBlack(converter=ConverterBallotGeneral(), tie_break=...):
\* rule_condorcet is RuleCondorcet() and rule_borda is RuleBorda()
RuleBlack(tie_break) ==
    Instance("RuleBlack", DefaultGeneral, tie_break)
    @@ [rule_condorcet |-> Instance("RuleCondorcet", DefaultGeneral, UNAMBIGUOUS),
        rule_borda |-> Instance("RuleBorda", DefaultGeneral, UNAMBIGUOUS)]

\* a variant that calls the Condorcet rule on the original profile
RuleCondorcetOnOriginal(inst) ==
    IF ~ inst.loaded THEN Failure("TypeError")
    ELSE Called(RuleCall(inst.rule_condorcet, AsEntries(inst.profile_original_),
                         CandNone))

\* RuleBlack.rule_condorcet_: the Condorcet rule, called on the converted
\* profile of the rule
rule_condorcet_(inst) ==
    IF ~ inst.loaded THEN Failure("TypeError")
    ELSE Called(RuleCall(inst.rule_condorcet, AsEntries(inst.profile_converted_),
                         CandNone))

\* RuleBlack.rule_borda_
rule_borda_(inst) ==
    IF ~ inst.loaded THEN Failure("TypeError")
    ELSE Called(RuleCall(inst.rule_borda, AsEntries(inst.profile_converted_),
                         CandNone))

\* the candidates whose coefficient against every other candidate, in the
\* weighted majority matrix of the rule, is above one half
CondorcetWinners(sub) ==
    { c \in sub.candidates_.set :
        \A d \in sub.candidates_.set \ {c} :
            Lt(PyFloat(1, 2), as_dict_(sub @@ [antisymmetric |-> FALSE])[<<c, d>>]) }

\* the order of two classes, the empty ones left out
TwoClasses(winners, others) ==
    IF winners = {} THEN NonEmptyOnly(<< others >>)
    ELSE NonEmptyOnly(<< winners, others \ winners >>)

\* RuleCondorcet.order_
CondorcetOrder(sub) == TwoClasses(CondorcetWinners(sub), sub.candidates_.set)

\* the Borda points that candidate c gets from the ballots of the profile,
\* from the i-th on, each ballot counting with its weight
RECURSIVE BordaPoints(_, _, _)
BordaPoints(profile, c, i) ==
    IF i > Len(profile) THEN PyInt(0)
    ELSE Add(IF c \in DOMAIN borda(profile[i].ballot, TRUE)
             THEN Mul(profile[i].weight, borda(profile[i].ballot, TRUE)[c])
             ELSE PyInt(0),
             BordaPoints(profile, c, i + 1))

\* RuleBorda.scores_: the average Borda score of each candidate
BordaScores(sub) ==
    [c \in sub.candidates_.set |->
        TrueDiv(BordaPoints(sub.profile_converted_, c, 1),
                TotalWeight(sub.profile_converted_, 1))]

\* c comes before d: in an earlier class of the first order or, when in the
\* same class, with a higher score in the second rule
Before2(primary, scores, c, d) ==
    \/ ClassOf(primary, c) < ClassOf(primary, d)
    \/ ClassOf(primary, c) = ClassOf(primary, d) /\ Lt(scores[d], scores[c])

\* the candidates of a set that no other one of the set comes before
TopOf(primary, scores, remaining) ==
    { c \in remaining : \A d \in remaining : ~ Before2(primary, scores, d, c) }

\* RuleSequentialTieBreak.order_: the candidates sorted by the first rule,
\* then by the second one
RECURSIVE SequentialOrder(_, _, _)
SequentialOrder(primary, scores, remaining) ==
    IF remaining = {} THEN <<>>
    ELSE << TopOf(primary, scores, remaining) >>
         \o SequentialOrder(primary, scores,
                            remaining \ TopOf(primary, scores, remaining))

\* the order of RuleBlack, from its two rules once called
BlackOrderOf(inst, condorcet, borda_rule) ==
    IF condorcet.exc # "none" THEN Failure(condorcet.exc)
    ELSE IF borda_rule.exc # "none" THEN Failure(borda_rule.exc)
    ELSE Value(SequentialOrder(CondorcetOrder(condorcet.value),
                               BordaScores(borda_rule.value),
                               inst.candidates_.set))

\* RuleBlack.order_
BlackOrder(inst) == BlackOrderOf(inst, rule_condorcet_(inst), rule_borda_(inst))

\* RuleBlack.winner_
BlackWinnerOf(inst, order) ==
    IF order.exc # "none" THEN Failure(order.exc)
    ELSE OrderWinner(inst.tie_break, order.value)

(***************************************************************************)
(* RuleKimRoush: an iterated elimination.  Each round scores the           *)
(* candidates that remain with the base rule (RuleVeto: each ballot takes  *)
(* its weight from the candidate it ranks last among them) and eliminates  *)
(* those whose score is below the average; the rounds end with the round   *)
(* that eliminates nobody.                                                 *)
(***************************************************************************)
\* a variant whose base rule is RulePlurality
KimRoushPlurality(tie_break) ==
    Instance("RuleKimRoush", DefaultGeneral, tie_break)
    @@ [base_rule |-> "RulePlurality", elimination |-> "EliminationBelowAverage",
        propagate_tie_break |-> TRUE, eliminations |-> <<>>, candidates |-> {},
        scores |-> EmptyDict]

\* RuleKimRoush(converter=ConverterBallotGeneral(), tie_break=...): base_rule
\* is RuleVeto() and elimination is EliminationBelowAverage(); eliminations
\* and candidates are the list and the candidates of the loop of the rounds,
\* scores the scores of the base rule in the round under way
RuleKimRoush(tie_break) ==
    Instance("RuleKimRoush", DefaultGeneral, tie_break)
    @@ [base_rule |-> "RuleVeto", elimination |-> "EliminationBelowAverage",
        propagate_tie_break |-> TRUE, eliminations |-> <<>>, candidates |-> {},
        scores |-> EmptyDict]

\* among the candidates of a set that the ballot ranks, c is the last one
Vetoed(ballot, among, c) ==
    /\ c \in among \cap candidates_in_b(ballot)
    /\ \A d \in (among \cap candidates_in_b(ballot)) \ {c} : Above(ballot, d, c)

\* among the candidates of a set that the ballot ranks, c is the first one
Favourite(ballot, among, c) ==
    /\ c \in among \cap candidates_in_b(ballot)
    /\ \A d \in (among \cap candidates_in_b(ballot)) \ {c} : Above(ballot, c, d)

\* what a ballot of weight w (an int) gives to c in the base rule
BasePoint(base_rule, ballot, w, among, c) ==
    IF base_rule = "RuleVeto"
    THEN (IF Vetoed(ballot, among, c) THEN - w.n ELSE 0)
    ELSE (IF Favourite(ballot, among, c) THEN w.n ELSE 0)

\* the score of c in the base rule, from the i-th ballot on
RECURSIVE BaseScore(_, _, _, _, _)
BaseScore(base_rule, profile, among, c, i) ==
    IF i > Len(profile) THEN 0
    ELSE BasePoint(base_rule, profile[i].ballot, profile[i].weight, among, c)
         + BaseScore(base_rule, profile, among, c, i + 1)

\* the scores_ of the base rule on the candidates that remain: ints, the
\* weights being ints
BaseScores(base_rule, profile, among) ==
    [c \in among |-> PyInt(BaseScore(base_rule, profile, among, c, 1))]

\* the sum of the scores (ints) of the candidates of a set
RECURSIVE SumScores(_, _)
SumScores(scores, among) ==
    IF among = {} THEN 0
    ELSE scores[FirstName(among)].n + SumScores(scores, among \ {FirstName(among)})

\* EliminationBelowAverage: the candidates whose score is lower than the
\* average score, the sum of the scores divided by their number
BelowAverage(scores) ==
    { c \in DOMAIN scores :
        scores[c].n * Cardinality(DOMAIN scores) < SumScores(scores, DOMAIN scores) }

\* one round: the scores, the candidates eliminated and those that remain
Elimination(scores) ==
    [scores |-> scores, eliminated |-> BelowAverage(scores),
     qualifiers |-> DOMAIN scores \ BelowAverage(scores)]

\* the base rule is called on the candidates that remain
Scored(inst) ==
    [inst EXCEPT !.scores = BaseScores(inst.base_rule, inst.profile_converted_,
                                       inst.candidates)]

\* the rule after a round: the round is kept; the next round is on the
\* candidates that were not eliminated
AfterRound(inst, round) ==
    [inst EXCEPT !.eliminations = Append(@, round), !.candidates = round.qualifiers]

\* the winner: the choice of the tie-break among the candidates that the
\* last round left
KimRoushWinner(inst, eliminations) ==
    Elect(inst.tie_break, eliminations[Len(eliminations)].qualifiers)

(***************************************************************************)
(* A ScorerBucklin instance: it is built, called on a ballot, read, called *)
(* again on another ballot and read again.                                 *)
(***************************************************************************)
MaxLoads == 2          \* calls made on one instance

Policies == {"True", "False", "None"}

\* the ballot and the election of the examples of ScorerBucklin
DocBucklin ==
    BallotOrder(<< {"a"}, {"b", "c"} >>, {"a", "b", "c", "d", "e"})

DocElection == CandSet({"a", "b", "c", "d", "e", "f", "g"})

ScorerBallots == OrderBallots \cup {DocBucklin}

\* the candidates of the election: none given, all the candidates, some of
\* them, those of the example
ScorerCandArgs == { CandNone, CandSet(Cands), CandSet(DictCands), DocElection }

\* the ballots and candidates of the later calls
AgainBallots ==
    { BallotOrder(<< {"a"}, {"b"} >>, {"a", "b"}),
      BallotOrder(<< {"b"}, {"a"} >>, {"a", "b", "c"}),
      BallotOrder(<< {"a", "b"} >>, {"a", "b"}) }

AgainCandArgs == { CandSet({"a", "b"}), CandSet({"a", "b", "c"}) }

InitScorer ==
    /\ pc = "start"
    /\ x \in { InBallot(b) : b \in ScorerBallots }
    /\ cands \in ScorerCandArgs
    /\ \E k \in 0 .. NumCands + 1, u \in Policies, a \in Policies :
          scorer = ScorerBucklin(k, u, a)
    /\ conv = Converter("None", DefaultGeneral, ToLevelsOptions(NoScale, TRUE))
    /\ out = Pending
    /\ first = Pending
    /\ IdleBallot
    /\ read = NoRead
    /\ rule = NoInstance
    /\ loads = 0 /\ changed = FALSE /\ warnings = 0

\* the memoized scores, if any, are not those of the arguments just loaded
Outdated(old, new) ==
    /\ "scores_" \in DOMAIN old.cache
    /\ old.cache["scores_"] # BucklinScores(new)

\* scorer(ballot=x, candidates=cands)
LoadScorer ==
    /\ scorer.class = "ScorerBucklin"
    /\ loads = 0
    /\ scorer' = ScorerCall(scorer, x.ballot, None, cands)
    /\ loads' = 1
    /\ changed' = Outdated(scorer, scorer')
    /\ read' = NoRead
    /\ UNCHANGED <<pc, conv, x, cands, out, first, ballotVars, rule, warnings>>

\* the scorer is called again, on a ballot and candidates of the later calls
LoadScorerAgain ==
    /\ scorer.class = "ScorerBucklin"
    /\ loads >= 1 /\ loads < MaxLoads
    /\ \E b \in AgainBallots, s \in AgainCandArgs :
          /\ x' = InBallot(b)
          /\ cands' = s
          /\ scorer' = ScorerCall(scorer, b, None, s)
    /\ loads' = loads + 1
    /\ changed' = Outdated(scorer, scorer')
    /\ read' = NoRead
    /\ UNCHANGED <<pc, conv, out, first, ballotVars, rule, warnings>>

\* scorer.scores_
ReadScores ==
    /\ scorer.class = "ScorerBucklin"
    /\ read' = Read("scores_", Cached(scorer, "scores_", BucklinScores(scorer)))
    /\ scorer' = Memoize(scorer, "scores_", BucklinScores(scorer))
    /\ UNCHANGED <<pc, conv, x, cands, out, first, ballotVars, rule, loads,
                   changed, warnings>>

NextScorer == LoadScorer \/ LoadScorerAgain \/ ReadScores

\* the scorers
SpecScorer == InitScorer /\ [][NextScorer]_vars

(***************************************************************************)
(* A Rule, a Matrix or a RuleMajorityJudgment: it is built without         *)
(* ballots, called on a profile, read, called again and read again.        *)
(***************************************************************************)
MaxVoters == 2         \* ballots of an enumerated profile

\* all the sequences of at most n entries
RECURSIVE Profiles(_, _)
Profiles(entries, n) ==
    IF n = 0 THEN { <<>> }
    ELSE Profiles(entries, n - 1)
         \cup { <<e>> \o p : e \in entries, p \in { q \in Profiles(entries, n - 1) : Len(q) = n - 1 } }

\* what the voters of a Rule or of a Matrix give
RawBallots ==
    { InStr("a > b", <<"a", ">", "b">>),
      InStr("a ~ b > c", <<"a", "~", "b", ">", "c">>),
      InDict([c \in {"a", "b"} |-> IF c = "a" THEN PyFloat(1, 1) ELSE PyFloat(1, 2)]),
      InBallot(BallotOrder(<< {"b"}, {"a"} >>, {"a", "b", "c"})),
      InBallot(BallotPlurality("c", {"a", "b", "c"})),
      InBallot(BallotVeto("a", {"a", "b"})) }

\* each of them with weight 1, two of them with weight 2 and one with a
\* named voter
RuleEntries ==
    { Entry(b, PyInt(1), None) : b \in RawBallots }
    \cup { Entry(InStr("a ~ b > c", <<"a", "~", "b", ">", "c">>), PyInt(2), None),
           Entry(InBallot(BallotVeto("a", {"a", "b"})), PyInt(2), None),
           Entry(InStr("a > b", <<"a", ">", "b">>), PyInt(1), "Alice") }

\* what the voters of a RuleMajorityJudgment give: levels of the scale of
\* its scorer to a and b, with weight 1, or to a only, with weight 2
Grades(scale) == IF IsScaleFromList(scale) THEN StrGrades ELSE FloatGrades

MajorityEntries(scale) ==
    { Entry(InDict(d), PyInt(1), None) : d \in [{"a", "b"} -> Grades(scale)] }
    \cup { Entry(InDict(d), PyInt(2), None) :
             d \in [{"a"} -> {scale.low, scale.high} \cap Grades(scale)]
                   \cup [{"a"} -> {PyFloat(0, 2), PyFloat(MaxGrade, 2)} \cap Grades(scale)] }

\* the example of RuleMajorityJudgment
DocProfile ==
    LET D(a, b) == Entry(InDict([c \in {"a", "b"} |-> IF c = "a" THEN a ELSE b]),
                         PyInt(1), None)
    IN  << D(PyFloat(1, 1), PyFloat(1, 1)), D(PyFloat(5, 10), PyFloat(6, 10)),
           D(PyFloat(5, 10), PyFloat(4, 10)), D(PyFloat(3, 10), PyFloat(2, 10)) >>

\* a profile whose only ballot has weight zero
ZeroProfile ==
    << Entry(InDict([c \in {"a"} |-> PyFloat(1, 1)]), PyInt(0), None) >>

FirstProfiles(inst) ==
    IF inst.class = "RuleMajorityJudgment"
    THEN Profiles(MajorityEntries(inst.scorer.scale), MaxVoters)
         \cup (IF IsScaleFromList(inst.scorer.scale) THEN {}
               ELSE {DocProfile, ZeroProfile})
    ELSE Profiles(RuleEntries, MaxVoters)

\* the profiles of the later calls; the last one holds a ballot that an
\* unambiguous converter cannot restrict to a and b
AgainProfiles ==
    { << Entry(InStr("b ~ a", <<"b", "~", "a">>), PyInt(1), None) >>,
      << Entry(InBallot(BallotOrder(<< {"a"}, {"b"}, {"c"} >>, {"a", "b", "c"})),
               PyInt(1), None),
         Entry(InBallot(BallotOneName("a", {"a"})), PyInt(2), None) >>,
      << Entry(InBallot(BallotOrder(<< {"a"}, {"b"} >>, {"a", "b"})), PyInt(1), None),
         Entry(InBallot(BallotPlurality("c", {"a", "b", "c"})), PyInt(1), None) >> }

\* the candidates of the later calls
AgainRuleCandArgs == { CandNone, CandSet({"a", "b"}) }

\* the candidates of the election: none given, or a set
RuleCandArgs == { CandNone, CandSet({"a", "b"}), CandSet({"a", "b", "c"}) }

\* a RuleMajorityJudgment is given a candidate that nobody grades only
\* with the default scale and tie-break
FirstCandArgs(inst) ==
    IF inst.class # "RuleMajorityJudgment" THEN RuleCandArgs
    ELSE IF inst.scorer.scale = ScaleGeneric /\ inst.tie_break = UNAMBIGUOUS
    THEN { CandNone, CandSet({"a", "b", "c"}) }
    ELSE { CandNone }

\* the instance, and the profile and candidates of its first call
InitInstance(instances) ==
    /\ pc = "start"
    /\ rule \in instances
    /\ x \in FirstProfiles(rule)
    /\ cands \in FirstCandArgs(rule)
    /\ conv = Converter("None", DefaultGeneral, ToLevelsOptions(NoScale, TRUE))
    /\ out = Pending
    /\ first = Pending
    /\ IdleBallot
    /\ read = NoRead
    /\ scorer = NoInstance
    /\ loads = 0 /\ changed = FALSE /\ warnings = 0

\* Rule(converter=...), Matrix(converter=...)
InitRule ==
    InitInstance({ Instance("Rule", g, UNAMBIGUOUS) :
                   g \in {DefaultGeneral, GeneralOptions(ASCENDING, ASCENDING, ASCENDING)} }
                 \cup { Instance("Matrix", DefaultGeneral, UNAMBIGUOUS) })

InitMajority ==
    InitInstance({ RuleMajorityJudgment(ScaleGeneric, tie_break, PyNone) :
                   tie_break \in Priorities }
                 \cup { RuleMajorityJudgment(ScaleFromList(<<Bad, Medium, Good>>),
                                             UNAMBIGUOUS, PyNone) })

\* the cached property of a Rule and of a Matrix that is read
AttributeOf(inst) ==
    IF inst.class = "Rule" THEN "n_candidates_" ELSE "candidates_as_list_"

\* some memoized value is not that of the profile just loaded
OutdatedCache(old, new) ==
    \E attr \in DOMAIN old.cache \cap {"n_candidates_", "candidates_as_list_"} :
        old.cache[attr] # Attribute(new, attr)

Loaded(entries, s) ==
    LET o == RuleCall(rule, entries, s)
    IN  /\ rule' = o.inst
        /\ out' = IF o.exc = "none" THEN Return(NoBallot) ELSE Raise(o.exc)
        /\ warnings' = IF o.warned THEN warnings + 1 ELSE warnings
        /\ x' = entries
        /\ cands' = s
        /\ loads' = loads + 1
        /\ changed' = OutdatedCache(rule, o.inst)
        /\ read' = NoRead
        /\ UNCHANGED <<pc, conv, first, ballotVars, scorer>>

\* rule(ballots, weights, voters, candidates), the first call, on x and cands
LoadRule ==
    /\ rule.class # "None"
    /\ loads = 0
    /\ Loaded(x, cands)

\* a later call
LoadRuleAgain ==
    /\ rule.class \in {"Rule", "Matrix"}
    /\ loads >= 1 /\ loads < MaxLoads
    /\ \E entries \in AgainProfiles, s \in AgainRuleCandArgs : Loaded(entries, s)

\* a read of a cached property: the memoized value if there is one, else
\* the value computed, which is then memoized
ReadAs(attr, computed) ==
    /\ read' = Read(attr, Cached(rule, attr, computed))
    /\ rule' = Memoize(rule, attr, computed)
    /\ UNCHANGED <<pc, conv, x, cands, out, first, ballotVars, scorer, loads,
                   changed, warnings>>

\* rule.n_candidates_, matrix.candidates_as_list_
ReadRule ==
    /\ rule.class \in {"Rule", "Matrix"}
    /\ ReadAs(AttributeOf(rule), Attribute(rule, AttributeOf(rule)))

\* rule.scores_
ReadMajorityScores ==
    /\ rule.class = "RuleMajorityJudgment"
    /\ ReadAs("scores_", MajorityScores(rule))

\* rule.winner_, which reads scores_
ReadWinner ==
    /\ rule.class = "RuleMajorityJudgment"
    /\ read' = Read("winner_", Cached(rule, "winner_", winner_(rule)))
    /\ rule' = Memoize(Memoize(rule, "scores_", MajorityScores(rule)),
                       "winner_", winner_(rule))
    /\ UNCHANGED <<pc, conv, x, cands, out, first, ballotVars, scorer, loads,
                   changed, warnings>>

NextRule == LoadRule \/ LoadRuleAgain \/ ReadRule

\* the rules and the matrices
SpecRule == InitRule /\ [][NextRule]_vars

NextMajority == LoadRule \/ ReadMajorityScores \/ ReadWinner

\* the majority judgment: one profile is loaded, then scores_ and winner_ are read
SpecMajority == InitMajority /\ [][NextMajority]_vars

\* rule.compare_scores(rule.scores_[c], rule.scores_[d]), once scores_ was read
Compared(one, another) ==
    /\ read' = [attr |-> "compare_scores", one |-> one, another |-> another,
                value |-> CompareScores(rule, one, another)]
    /\ UNCHANGED <<pc, conv, x, cands, out, first, ballotVars, scorer, rule, loads,
                   changed, warnings>>

CompareTwoScores ==
    /\ rule.class = "RuleMajorityJudgment"
    /\ "scores_" \in DOMAIN rule.cache
    /\ \E c, d \in DOMAIN rule.cache["scores_"].value :
          Compared(rule.cache["scores_"].value[c], rule.cache["scores_"].value[d])

NextCompare == LoadRule \/ ReadMajorityScores \/ CompareTwoScores

\* the majority judgment: the scores of two candidates are compared
SpecCompare == InitMajority /\ [][NextCompare]_vars

\* the objects that memoize: scorers, rules and matrices
SpecCache == (InitScorer \/ InitRule) /\ [][NextScorer \/ NextRule]_vars

(***************************************************************************)
(* A Rule whose order_ is given by its subclass: the accessors derived     *)
(* from order_ are read, in any order, each value being memoized.          *)
(***************************************************************************)
\* the weak orders that order_ may be, over the candidates of the election
RuleOrders == UNION { WeakOrders(m) : m \in SUBSET Cands }

\* a loaded rule whose candidates are those of its order_
OrderedRule(tie_break, order) ==
    [Instance("Rule", DefaultGeneral, tie_break)
        EXCEPT !.loaded = TRUE, !.candidates_ = CandSet(UnionSeq(order))]

InitOrder ==
    /\ pc = "start"
    /\ x \in RuleOrders
    /\ rule \in { OrderedRule(tie_break, x) : tie_break \in Priorities }
    /\ cands = CandNone
    /\ conv = Converter("None", DefaultGeneral, ToLevelsOptions(NoScale, TRUE))
    /\ out = Pending
    /\ first = Pending
    /\ IdleBallot
    /\ read = NoRead
    /\ scorer = NoInstance
    /\ loads = 1 /\ changed = FALSE /\ warnings = 0

\* rule.cowinners_
ReadCowinners == ReadAs("cowinners_", OrderCowinners(x))

\* rule.winner_, which reads cowinners_
ReadOrderWinner ==
    /\ read' = Read("winner_", Cached(rule, "winner_", OrderWinner(rule.tie_break, x)))
    /\ rule' = Memoize(Memoize(rule, "cowinners_", OrderCowinners(x)),
                       "winner_", OrderWinner(rule.tie_break, x))
    /\ UNCHANGED <<pc, conv, x, cands, out, first, ballotVars, scorer, loads,
                   changed, warnings>>

\* rule.cotrailers_
ReadCotrailers == ReadAs("cotrailers_", cotrailers_(x))

\* rule.trailer_, which reads cotrailers_
ReadTrailer ==
    /\ read' = Read("trailer_", Cached(rule, "trailer_", trailer_(rule.tie_break, x)))
    /\ rule' = Memoize(Memoize(rule, "cotrailers_", cotrailers_(x)),
                       "trailer_", trailer_(rule.tie_break, x))
    /\ UNCHANGED <<pc, conv, x, cands, out, first, ballotVars, scorer, loads,
                   changed, warnings>>

\* rule.strict_order_
ReadStrictOrder == ReadAs("strict_order_", strict_order_(rule.tie_break, x))

NextOrder ==
    \/ ReadCowinners \/ ReadOrderWinner \/ ReadCotrailers \/ ReadTrailer
    \/ ReadStrictOrder

\* the accessors of a rule that has an order_
SpecOrder == InitOrder /\ [][NextOrder]_vars

(***************************************************************************)
(* A RuleSimplifiedDodgson: it is built without ballots, called on a       *)
(* profile of orders, and its matrix, scores and winner are read.          *)
(***************************************************************************)
\* the orders that the voters give, over a, b and c or over a and b
OrdersOfThree ==
    { InStr("a > b > c", <<"a", ">", "b", ">", "c">>),
      InStr("b > a > c", <<"b", ">", "a", ">", "c">>),
      InStr("c > a > b", <<"c", ">", "a", ">", "b">>),
      InStr("b > c > a", <<"b", ">", "c", ">", "a">>),
      InStr("a ~ b > c", <<"a", "~", "b", ">", "c">>) }

OrdersOfTwo ==
    { InStr("a > b", <<"a", ">", "b">>), InStr("b > a", <<"b", ">", "a">>) }

\* each order with weight 1, one of them with weight 2
Weighted(orders) ==
    { Entry(b, PyInt(1), None) : b \in orders }
    \cup { Entry(b, PyInt(2), None) : b \in orders \cap { InStr("a > b > c", <<"a", ">", "b", ">", "c">>), InStr("b > a", <<"b", ">", "a">>) } }

\* the example of RuleSimplifiedDodgson
DocDodgson ==
    << Entry(InStr("a > b > c", <<"a", ">", "b", ">", "c">>), PyInt(3), None),
       Entry(InStr("b > a > c", <<"b", ">", "a", ">", "c">>), PyInt(3), None),
       Entry(InStr("c > a > b", <<"c", ">", "a", ">", "b">>), PyInt(2), None) >>

\* the profiles: all the voters rank the same candidates
OrderProfiles ==
    Profiles(Weighted(OrdersOfThree), MaxVoters)
    \cup Profiles(Weighted(OrdersOfTwo), MaxVoters) \cup {DocDodgson}

InitDodgson ==
    /\ pc = "start"
    /\ rule \in { RuleSimplifiedDodgson(tie_break) : tie_break \in Priorities }
    /\ x \in OrderProfiles
    /\ cands \in RuleCandArgs
    /\ conv = Converter("None", DefaultGeneral, ToLevelsOptions(NoScale, TRUE))
    /\ out = Pending
    /\ first = Pending
    /\ IdleBallot
    /\ read = NoRead
    /\ scorer = NoInstance
    /\ loads = 0 /\ changed = FALSE /\ warnings = 0

\* rule.matrix_weighted_majority_: the matrix of the rule is called, and is
\* the value memoized
ReadMatrix ==
    /\ rule.class = "RuleSimplifiedDodgson"
    /\ read' = Read("matrix_weighted_majority_",
                    Cached(rule, "matrix_weighted_majority_", matrix_weighted_majority_(rule)))
    /\ rule' = Memoize(rule, "matrix_weighted_majority_", matrix_weighted_majority_(rule))
    /\ UNCHANGED <<pc, conv, x, cands, out, first, ballotVars, scorer, loads,
                   changed, warnings>>

\* rule.scores_, which reads matrix_weighted_majority_
ReadDodgsonScores ==
    /\ rule.class = "RuleSimplifiedDodgson"
    /\ read' = Read("scores_", Cached(rule, "scores_", DodgsonScores(rule)))
    /\ rule' = Memoize(Memoize(rule, "matrix_weighted_majority_", matrix_weighted_majority_(rule)),
                       "scores_", DodgsonScores(rule))
    /\ UNCHANGED <<pc, conv, x, cands, out, first, ballotVars, scorer, loads,
                   changed, warnings>>

\* rule.winner_, which reads scores_
ReadDodgsonWinner ==
    /\ rule.class = "RuleSimplifiedDodgson"
    /\ read' = Read("winner_", Cached(rule, "winner_", NumWinnerOf(rule, DodgsonScores(rule))))
    /\ rule' = Memoize(Memoize(Memoize(rule, "matrix_weighted_majority_", matrix_weighted_majority_(rule)),
                               "scores_", DodgsonScores(rule)),
                       "winner_", NumWinnerOf(rule, DodgsonScores(rule)))
    /\ UNCHANGED <<pc, conv, x, cands, out, first, ballotVars, scorer, loads,
                   changed, warnings>>

NextDodgson == LoadRule \/ ReadMatrix \/ ReadDodgsonScores \/ ReadDodgsonWinner

\* the simplified Dodgson rule
SpecDodgson == InitDodgson /\ [][NextDodgson]_vars

(***************************************************************************)
(* A RuleBlack: it is built without ballots, called on a profile of        *)
(* orders, and its two rules, its order and its winner are read.           *)
(***************************************************************************)
\* the two examples of RuleBlack
DocBlackCondorcet ==
    << Entry(InStr("a > b > c", <<"a", ">", "b", ">", "c">>), PyInt(6), None),
       Entry(InStr("b > c > a", <<"b", ">", "c", ">", "a">>), PyInt(4), None) >>

DocBlackBorda ==
    << Entry(InStr("a > b > c", <<"a", ">", "b", ">", "c">>), PyInt(2), None),
       Entry(InStr("b > c > a", <<"b", ">", "c", ">", "a">>), PyInt(1), None),
       Entry(InStr("c > a > b", <<"c", ">", "a", ">", "b">>), PyInt(1), None) >>

\* the orders that the voters of a RuleBlack give, one of them also with
\* weight 2
BlackEntries ==
    { Entry(b, PyInt(1), None) :
        b \in { InStr("a > b > c", <<"a", ">", "b", ">", "c">>),
                 InStr("b > c > a", <<"b", ">", "c", ">", "a">>),
                 InStr("a ~ b > c", <<"a", "~", "b", ">", "c">>) } }
    \cup { Entry(InStr("a > b > c", <<"a", ">", "b", ">", "c">>), PyInt(2), None) }

\* every candidate of the election is ranked by every voter
InitBlack ==
    /\ pc = "start"
    /\ rule \in { RuleBlack(tie_break) : tie_break \in Priorities }
    /\ x \in (Profiles(BlackEntries, MaxVoters)
              \cup {DocBlackCondorcet, DocBlackBorda}) \ { <<>> }
    /\ cands \in AgainRuleCandArgs
    /\ conv = Converter("None", DefaultGeneral, ToLevelsOptions(NoScale, TRUE))
    /\ out = Pending
    /\ first = Pending
    /\ IdleBallot
    /\ read = NoRead
    /\ scorer = NoInstance
    /\ loads = 0 /\ changed = FALSE /\ warnings = 0

\* rule.rule_condorcet_
ReadCondorcet ==
    /\ rule.class = "RuleBlack"
    /\ ReadAs("rule_condorcet_", rule_condorcet_(rule))

\* rule.rule_borda_
ReadBorda ==
    /\ rule.class = "RuleBlack"
    /\ ReadAs("rule_borda_", rule_borda_(rule))

\* rule.order_
ReadBlackOrder ==
    /\ rule.class = "RuleBlack"
    /\ ReadAs("order_", BlackOrder(rule))

\* rule.winner_, which reads order_
ReadBlackWinnerOf(order) ==
    /\ read' = Read("winner_", Cached(rule, "winner_", BlackWinnerOf(rule, order)))
    /\ rule' = Memoize(Memoize(rule, "order_", order),
                       "winner_", BlackWinnerOf(rule, order))
    /\ UNCHANGED <<pc, conv, x, cands, out, first, ballotVars, scorer, loads,
                   changed, warnings>>

ReadBlackWinner ==
    /\ rule.class = "RuleBlack"
    /\ ReadBlackWinnerOf(BlackOrder(rule))

NextBlack ==
    \/ LoadRule \/ ReadCondorcet \/ ReadBorda \/ ReadBlackOrder
    \/ ReadBlackWinner

\* Black's rule
SpecBlack == InitBlack /\ [][NextBlack]_vars

(***************************************************************************)
(* A RuleKimRoush: it is built without ballots, called on a profile of     *)
(* strict orders, and its rounds run one after the other; its winner is    *)
(* read after the last round.                                              *)
(***************************************************************************)
\* the example of RuleKimRoush
DocKimRoush ==
    << Entry(InStr("a > b > c > d", <<"a", ">", "b", ">", "c", ">", "d">>), PyInt(1), None),
       Entry(InStr("a > b > d > c", <<"a", ">", "b", ">", "d", ">", "c">>), PyInt(1), None) >>

\* the strict orders over a, b and c, one of them also with weight 2
StrictEntries ==
    { Entry(b, PyInt(1), None) :
        b \in (OrdersOfThree \ { InStr("a ~ b > c", <<"a", "~", "b", ">", "c">>) })
              \cup { InStr("a > c > b", <<"a", ">", "c", ">", "b">>),
                     InStr("c > b > a", <<"c", ">", "b", ">", "a">>) } }
    \cup { Entry(InStr("a > b > c", <<"a", ">", "b", ">", "c">>), PyInt(2), None) }

InitKimRoush ==
    /\ pc = "start"
    /\ rule \in { RuleKimRoush(tie_break) : tie_break \in Priorities }
    /\ x \in (Profiles(StrictEntries, MaxVoters) \cup {DocKimRoush}) \ { <<>> }
    /\ cands \in AgainRuleCandArgs
    /\ conv = Converter("None", DefaultGeneral, ToLevelsOptions(NoScale, TRUE))
    /\ out = Pending
    /\ first = Pending
    /\ IdleBallot
    /\ read = NoRead
    /\ scorer = NoInstance
    /\ loads = 0 /\ changed = FALSE /\ warnings = 0

\* rule.eliminations_ is read: the loop of the rounds starts on candidates_
StartEliminations ==
    /\ rule.class = "RuleKimRoush" /\ rule.loaded
    /\ pc = "start"
    /\ pc' = "rounds"
    /\ rule' = [rule EXCEPT !.eliminations = <<>>, !.candidates = rule.candidates_.set]
    /\ UNCHANGED <<conv, x, cands, out, first, read, ballotVars, scorer, loads,
                   changed, warnings>>

\* a round of the loop: the base rule scores the candidates that remain
ScoreRound ==
    /\ rule.class = "RuleKimRoush"
    /\ pc = "rounds"
    /\ pc' = "scored"
    /\ \E scored \in { Scored(rule) } : rule' = scored
    /\ UNCHANGED <<conv, x, cands, out, first, read, ballotVars, scorer, loads,
                   changed, warnings>>

\* the round is kept; the loop ends, and eliminations_ is memoized, if the
\* round eliminated nobody
RoundDone(after) ==
    IF BelowAverage(rule.scores) = {}
    THEN /\ pc' = "done"
         /\ rule' = Memoize(after, "eliminations_", Value(after.eliminations))
    ELSE /\ pc' = "rounds"
         /\ rule' = after

\* the end of the round: the elimination is made from the scores
EliminationRound ==
    /\ rule.class = "RuleKimRoush"
    /\ pc = "scored"
    /\ \E round \in { Elimination(rule.scores) } :
         \E after \in { AfterRound(rule, round) } : RoundDone(after)
    /\ UNCHANGED <<conv, x, cands, out, first, read, ballotVars, scorer, loads,
                   changed, warnings>>

\* rule.winner_, once the rounds are over
ReadKimRoushWinner ==
    /\ rule.class = "RuleKimRoush"
    /\ pc = "done"
    /\ ReadAs("winner_", KimRoushWinner(rule, rule.eliminations))

NextKimRoush ==
    \/ LoadRule \/ StartEliminations \/ ScoreRound \/ EliminationRound
    \/ ReadKimRoushWinner

\* the Kim-Roush rule; once the rule is loaded, the loop of the rounds runs
\* to its end
SpecKimRoush ==
    /\ InitKimRoush /\ [][NextKimRoush]_vars
    /\ WF_vars(StartEliminations) /\ WF_vars(ScoreRound)
    /\ WF_vars(EliminationRound)

TypeOK ==
    /\ pc \in {"start", "done", "again", "both", "read", "rounds",
              "scored"}
    /\ conv.kind \in {"General", "ToLevelsInterval", "ToLevels", "ToPlurality",
                    "None"}
    /\ out.exc \in {"pending", "none", "TypeError", "ValueError", "KeyError",
                    "ZeroDivisionError", "NotImplementedError"}

(***************************************************************************)
(* Properties of the converters to levels (SpecToLevels).                  *)
(***************************************************************************)
Done == pc = "done"

IsBallotOf(in, variants) == in.tag = "ballot" /\ in.ballot.variant \in variants

\* the candidates kept by the candidates argument
Kept(d, s) == IF s.none THEN d ELSE d \cap s.set

\* the call goes to ConverterBallotToLevelsInterval, directly or delegated
ToInterval ==
    \/ conv.kind = "ToLevelsInterval"
    \/ conv.kind = "ToLevels" /\ conv.t.scale.type = "ScaleInterval"

BordaTwice(b, c, give) ==
    LET i == ClassOf(b.order, c)
        below == UNION {b.order[j] : j \in (i + 1) .. Len(b.order)}
    IN  2 * Cardinality(below) + (Cardinality(b.order[i]) - 1)
        + (IF give THEN 2 * Cardinality(b.candidates \ UnionSeq(b.order)) ELSE 0)

BordaDenominator(b, give) ==
    IF give THEN Cardinality(b.candidates) - 1 ELSE Cardinality(UnionSeq(b.order)) - 1

DocOrder == BallotOrder(<< {"a"}, {"b"}, {"c"} >>, {"a", "b", "c", "d", "e"})

Fraction(n, d) == [n |-> n, d |-> d]

\* C2: an order converted to [low, high] gives each mentioned candidate
\* low + (high - low) * borda / denominator and no level to the others; the
\* order a > b > c over {a, b, c, d, e} on [0, 1] gives 1, 1/2, 0 without
\* points from the unordered candidates and 1, 3/4, 1/2 with them.
C2_OrderToLevels ==
    (Done /\ conv.kind = "ToLevelsInterval" /\ IsBallotOf(x, {"BallotOrder"})
          /\ BordaDenominator(x.ballot, conv.t.borda_unordered_give_points) > 0) =>
        LET b == x.ballot
            give == conv.t.borda_unordered_give_points
            low == conv.t.scale.low
            high == conv.t.scale.high
            levels == out.ballot.levels
        IN  /\ Returned(out)
            /\ DOMAIN levels = Kept(UnionSeq(b.order), cands)
            /\ \A c \in DOMAIN levels :
                  \* levels[c] - low = (high - low) * borda / denominator
                  NumEq(Mul(Sub(levels[c], low),
                            PyInt(2 * BordaDenominator(b, give))),
                        Mul(Sub(high, low), PyInt(BordaTwice(b, c, give))))
            /\ (b = DocOrder /\ conv.t.scale = UnitInterval /\ cands.none) =>
                  [c \in DOMAIN levels |-> Fraction(levels[c].n, levels[c].d)]
                  = IF give
                    THEN [c \in {"a", "b", "c"} |->
                            CASE c = "a" -> Fraction(1, 1)
                              [] c = "b" -> Fraction(3, 4)
                              [] OTHER -> Fraction(1, 2)]
                    ELSE [c \in {"a", "b", "c"} |->
                            CASE c = "a" -> Fraction(1, 1)
                              [] c = "b" -> Fraction(1, 2)
                              [] OTHER -> Fraction(0, 1)]

\* the order of the documentation, converted without points from d and e
C2_Witness ==
    /\ Done /\ conv.kind = "ToLevelsInterval" /\ Returned(out)
    /\ x = InBallot(DocOrder)
    /\ ~ conv.t.borda_unordered_give_points
    /\ conv.t.scale = UnitInterval
    /\ cands.none
    /\ out.ballot.levels["b"] = PyFloat(1, 2)

\* C3: an order whose Borda denominator is zero is converted without a
\* division by zero, the candidate getting the high bound of the scale.
C3_SingleCandidateGuard ==
    (Done /\ conv.kind = "ToLevelsInterval" /\ IsBallotOf(x, {"BallotOrder"})
          /\ UnionSeq(x.ballot.order) # {}
          /\ BordaDenominator(x.ballot, conv.t.borda_unordered_give_points) = 0) =>
        /\ Returned(out)
        /\ \A c \in DOMAIN out.ballot.levels :
               NumEq(out.ballot.levels[c], conv.t.scale.high)

\* C4: built with scale=None, ConverterBallotToLevels returns a ballot with
\* levels as it is, restricted to the candidates, and converts any other
\* ballot to levels on the interval [0, 1].
C4_NoScaleUsable ==
    (Done /\ conv.kind = "ToLevels" /\ conv.t.scale = NoScale /\ x.tag = "ballot") =>
        IF x.ballot.variant = "BallotLevels"
        THEN /\ Returned(out)
             /\ out.ballot.levels = RestrictDict(x.ballot.levels,
                                                 Kept(DOMAIN x.ballot.levels, cands))
             /\ out.ballot.candidates = Kept(x.ballot.candidates, cands)
             /\ BallotScale(out.ballot) = BallotScale(x.ballot)
        ELSE /\ out.exc # "NotImplementedError"
             /\ Returned(out) =>
                   /\ out.ballot.variant = "BallotLevels"
                   /\ BallotScale(out.ballot) = UnitInterval

DocSet == ScaleFromSet({PyInt(0), PyInt(2), PyInt(4), PyInt(10)})

DocLevels ==
    BallotLevels([c \in {"a", "b"} |-> IF c = "a" THEN PyInt(100) ELSE PyInt(57)],
                 {"a", "b"}, ScaleRange(PyInt(0), PyInt(100)))

\* the scale ScaleFromSet({0, 2, 4, 10}) is accepted, and the levels of the
\* ballots converted to it are members of the set
FromSetAccepted ==
    (Done /\ conv.kind = "ToLevels" /\ conv.t.scale = DocSet) =>
        /\ out.exc # "NotImplementedError"
        /\ Returned(out) =>
              /\ \A c \in DOMAIN out.ballot.levels :
                     out.ballot.levels[c] \in Range(DocSet.levels)
              /\ BallotScale(out.ballot) = DocSet
        /\ (x = InBallot(DocLevels) /\ cands.none) =>
              /\ Returned(out)
              /\ out.ballot.levels =
                     [c \in {"a", "b"} |-> IF c = "a" THEN PyInt(10) ELSE PyInt(4)]

C6_OneNameToLevels ==
    (Done /\ conv.kind = "ToLevelsInterval"
          /\ IsBallotOf(x, {"BallotOneName", "BallotPlurality", "BallotVeto"})) =>
        LET b == x.ballot
            chosen == IF b.variant = "BallotVeto"
                      THEN conv.t.scale.low ELSE conv.t.scale.high
            others == IF b.variant = "BallotVeto"
                      THEN conv.t.scale.high ELSE conv.t.scale.low
        IN  /\ Returned(out)
            /\ out.ballot.variant = "BallotLevels"
            /\ out.ballot.levels =
                  IF b.candidate = None THEN EmptyDict
                  ELSE [c \in Kept(b.candidates, cands) |->
                           IF c = b.candidate THEN chosen ELSE others]
            /\ (b = BallotVeto("a", {"a", "b", "c"}) /\ conv.t.scale = UnitInterval
                  /\ cands.none) =>
                  out.ballot.levels =
                     [c \in {"a", "b", "c"} |->
                         IF c = "a" THEN PyFloat(0, 1) ELSE PyFloat(1, 1)]

\* the veto of the documentation
C6_Witness ==
    /\ Done /\ conv.kind = "ToLevelsInterval" /\ Returned(out)
    /\ x = InBallot(BallotVeto("a", {"a", "b", "c"}))
    /\ conv.t.scale = UnitInterval
    /\ cands.none
    /\ out.ballot.levels["a"] = PyFloat(0, 1)
    /\ out.ballot.levels["b"] = PyFloat(1, 1)

\* the scale of the ballot has two numeric bounds
BoundedNumeric(sc) == IsNumber(sc.low) /\ IsNumber(sc.high)

\* C7: a ballot with levels on a bounded numeric scale [src_low, src_high]
\* is converted to [low, high] by v -> low + (high - low) * (v - src_low) /
\* (src_high - src_low); converted to its own scale it keeps every level.
C7_AffineRescale ==
    (Done /\ conv.kind = "ToLevelsInterval" /\ IsBallotOf(x, {"BallotLevels"})
          /\ BoundedNumeric(BallotScale(x.ballot))) =>
        LET b == x.ballot
            src == BallotScale(b)
            low == conv.t.scale.low
            high == conv.t.scale.high
            levels == out.ballot.levels
        IN  /\ Returned(out)
            /\ DOMAIN levels = Kept(DOMAIN b.levels, cands)
            /\ \A c \in DOMAIN levels :
                  /\ ~ NumEq(src.high, src.low)
                  /\ NumEq(Mul(Sub(levels[c], low), Sub(src.high, src.low)),
                           Mul(Sub(high, low), Sub(b.levels[c], src.low)))
            /\ conv.t.scale = src =>
                  \A c \in DOMAIN levels : NumEq(levels[c], b.levels[c])

(***************************************************************************)
(* Properties of the general converter (SpecGeneral).                      *)
(***************************************************************************)
\* the candidates named by an object that reads as an order
Named(in) ==
    IF in.tag = "str" THEN {in.toks[i] : i \in {j \in 1 .. Len(in.toks) : j % 2 = 1}}
    ELSE UnionSeq(in.classes)

\* the object reads as an order: a list of classes, or a str in the syntax
ReadsAsOrder(in) == in.tag = "list" \/ (in.tag = "str" /\ ParseOk(in.toks))

\* C8: the general converter restricts a ballot by the restrict of its own
\* class, makes a Levels ballot of a dict, an Order ballot of any other
\* object that reads as an order, except a OneName ballot when the order
\* names exactly one candidate, and a OneName ballot holding the object
\* itself when the object does not read as an order.
C8_Cascade ==
    (Done /\ conv.kind = "General") =>
        CASE x.tag = "ballot" ->
                Returned(out) =>
                    /\ out.ballot.variant = x.ballot.variant
                    /\ out.ballot.candidates = Kept(x.ballot.candidates, cands)
          [] x.tag = "dict" ->
                /\ Returned(out)
                /\ out.ballot.variant = "BallotLevels"
                /\ out.ballot.levels = RestrictDict(x.dict, Kept(DOMAIN x.dict, cands))
          [] ReadsAsOrder(x) /\ Cardinality(Named(x)) # 1 ->
                /\ Returned(out)
                /\ out.ballot.variant = "BallotOrder"
                /\ UnionSeq(out.ballot.order) = Kept(Named(x), cands)
          [] ReadsAsOrder(x) /\ Cardinality(Named(x)) = 1 ->
                /\ Returned(out)
                /\ out.ballot.variant = "BallotOneName"
                /\ out.ballot.candidate \in Kept(Named(x), cands) \cup {None}
          [] OTHER ->
                /\ Returned(out)
                /\ out.ballot.variant = "BallotOneName"
                /\ out.ballot.candidate \in Kept({x.text}, cands) \cup {None}

\* C9: with the default priorities the general converter returns a ballot,
\* and raises nothing, on every ballot, dict, list of classes, str and
\* scalar, whatever the candidates argument.
C9_Total ==
    (Done /\ conv.kind = "General" /\ conv.g = DefaultGeneral) => Returned(out)

\* same class, same content, same declared candidates, same scale
Equivalent(b1, b2) ==
    /\ b1.variant = b2.variant
    /\ b1.order = b2.order
    /\ b1.levels = b2.levels
    /\ b1.candidate = b2.candidate
    /\ b1.candidates = b2.candidates
    /\ b1.variant = "BallotLevels" => BallotScale(b1) = BallotScale(b2)

\* C10: the general converter, called again with the same candidates on the
\* ballot it returned, returns an equivalent ballot.
C10_Idempotent ==
    (pc = "again") => (Returned(out) /\ Equivalent(out.ballot, first.ballot))

\* an order restricted to fewer candidates by the first call, then converted
\* again: two classes are left, and a candidate of the order is dropped
C10_Witness ==
    /\ pc = "again"
    /\ Returned(out)
    /\ ~ cands.none
    /\ first.ballot.variant = "BallotOrder"
    /\ Len(first.ballot.order) = 2
    /\ ReadsAsOrder(x)
    /\ Named(x) # UnionSeq(first.ballot.order)
    /\ out.ballot.order = first.ballot.order

(***************************************************************************)
(* Properties of the restrictions (SpecGeneral).                           *)
(***************************************************************************)
\* the priority option configured for the class of the ballot
PriorityOf(g, b) ==
    CASE b.variant = "BallotPlurality" -> g.plurality_priority
      [] b.variant = "BallotVeto" -> g.veto_priority
      [] OTHER -> g.one_name_priority

AllAscending == GeneralOptions(ASCENDING, ASCENDING, ASCENDING)

DocCands == CandSet({"b", "c", "d"})

\* a OneName, Plurality or Veto ballot holding a candidate, restricted
OneNameRestricted ==
    /\ Done /\ conv.kind = "General"
    /\ IsBallotOf(x, {"BallotOneName", "BallotPlurality", "BallotVeto"})
    /\ x.ballot.candidate # None
    /\ ~ cands.none

\* C11: the general converter restricts a OneName, Plurality or Veto ballot
\* to the intersection of its candidates and the subset, keeps the held
\* candidate when it is in the subset, and otherwise resolves a new one with
\* the priority configured for the ballot's own class: an error when that
\* priority is UNAMBIGUOUS and several candidates are left, else the first
\* name left (the last one for a Veto ballot), or None when none is left.
C11_OneNameRestrict ==
    OneNameRestricted =>
        LET b == x.ballot
            kept == b.candidates \cap cands.set
            priority == PriorityOf(conv.g, b)
        IN  /\ Returned(out) =>
                /\ out.ballot.variant = b.variant
                /\ out.ballot.candidates = kept
            /\ b.candidate \in cands.set =>
                Returned(out) /\ out.ballot.candidate = b.candidate
            /\ (b.candidate \notin cands.set /\ priority = UNAMBIGUOUS
                /\ Cardinality(kept) > 1) => out.exc = "ValueError"
            /\ (b.candidate \notin cands.set
                /\ (priority = ASCENDING \/ Cardinality(kept) <= 1)) =>
                /\ Returned(out)
                /\ out.ballot.candidate =
                      (IF kept = {} THEN None
                       ELSE IF b.variant = "BallotVeto" THEN LastName(kept)
                       ELSE FirstName(kept))
            /\ (conv.g = AllAscending /\ cands = DocCands
                /\ b.candidate = "a" /\ b.candidates = {"a", "b", "c"}) =>
                /\ Returned(out)
                /\ out.ballot.candidates = {"b", "c"}
                /\ out.ballot.candidate =
                      (IF b.variant = "BallotVeto" THEN "c" ELSE "b")

\* a Plurality ballot whose candidate is excluded, two candidates left, with
\* an ascending plurality_priority while one_name_priority is UNAMBIGUOUS
C11_Witness ==
    /\ OneNameRestricted
    /\ x.ballot.variant = "BallotPlurality"
    /\ x.ballot.candidate \notin cands.set
    /\ Cardinality(x.ballot.candidates \cap cands.set) = 2
    /\ conv.g.plurality_priority = ASCENDING
    /\ conv.g.one_name_priority = UNAMBIGUOUS
    /\ Returned(out)
    /\ out.ballot.candidate = FirstName(x.ballot.candidates \cap cands.set)

(***************************************************************************)
(* Properties of the ballots (SpecBallot).                                 *)
(***************************************************************************)
\* C12: for an Order or Levels ballot and candidate sets S and T,
\* restrict(S).restrict(T) and restrict(S & T) have the same class, the same
\* content, the same declared candidates and the same scale.
C12_RestrictComposes ==
    (pc = "both" /\ ~ cands.none /\ ~ cands2.none) =>
        /\ Returned(out) /\ Returned(direct)
        /\ Equivalent(out.ballot, direct.ballot)
        /\ out.ballot.candidates = x.ballot.candidates \cap cands.set \cap cands2.set

\* a Levels ballot with an inferred scale; none of S and T contains the
\* other, the first restriction drops a graded candidate and the second one
\* a declared candidate, and a graded candidate is left
C12_Witness ==
    /\ pc = "both" /\ ~ cands.none /\ ~ cands2.none
    /\ x.ballot.variant = "BallotLevels"
    /\ x.ballot.scale = NoScale
    /\ ~ (cands.set \subseteq cands2.set) /\ ~ (cands2.set \subseteq cands.set)
    /\ DOMAIN first.ballot.levels # DOMAIN x.ballot.levels
    /\ out.ballot.candidates # first.ballot.candidates
    /\ DOMAIN out.ballot.levels # {}
    /\ Equivalent(out.ballot, direct.ballot)

\* a Levels ballot was restricted to a set S
LevelsRestricted ==
    /\ pc \in {"done", "again", "both"}
    /\ x.ballot.variant = "BallotLevels"
    /\ ~ cands.none

\* C13: BallotLevels.restrict(S) raises nothing and returns a Levels ballot
\* whose dictionary is the entries of the original with a candidate in S
\* (none when S names no graded candidate), whose declared candidates are
\* the original ones within S, and whose scale is the scale of the original,
\* inferred or not; the original ballot is left as it was.
C13_LevelsRestrict ==
    /\ [](LevelsRestricted =>
            /\ Returned(first)
            /\ first.ballot.variant = "BallotLevels"
            /\ DOMAIN first.ballot.levels = (DOMAIN x.ballot.levels) \cap cands.set
            /\ \A c \in DOMAIN first.ballot.levels :
                   first.ballot.levels[c] = x.ballot.levels[c]
            /\ first.ballot.candidates = x.ballot.candidates \cap cands.set
            /\ BallotScale(first.ballot) = BallotScale(x.ballot))
    /\ [][x' = x]_vars

\* a ballot grading two candidates differently, its scale inferred, is
\* restricted to one of them: the scale still spans both grades
C13_Witness ==
    /\ LevelsRestricted
    /\ x.ballot.scale = NoScale
    /\ Cardinality(DOMAIN first.ballot.levels) = 1
    /\ Cardinality(Values(x.ballot)) = 2
    /\ BallotScale(first.ballot) = BallotScale(x.ballot)
    /\ Lt(BallotScale(first.ballot).low, BallotScale(first.ballot).high)

\* S names no graded candidate: the result is an empty Levels ballot
C13_WitnessDisjoint ==
    /\ LevelsRestricted
    /\ DOMAIN x.ballot.levels # {}
    /\ (DOMAIN x.ballot.levels) \cap cands.set = {}
    /\ Returned(first)
    /\ first.ballot.levels = EmptyDict

\* as_weak_order of a Levels ballot was read
WeakOrderRead ==
    /\ pc = "read"
    /\ read.attr = "as_weak_order"
    /\ x.ballot.variant = "BallotLevels"

\* the class of the weak order that holds c
ReadClassOf(c) == CHOOSE i \in 1 .. Len(read.value) : c \in read.value[i]

\* C14: as_weak_order of a Levels ballot lists every graded candidate in
\* exactly one class, two candidates being in the same class when they have
\* the same level, and a candidate with a higher level in the order of the
\* ballot's scale being in an earlier class; the ballot {a: Good, b: Bad,
\* c: Bad} on the list Bad, Medium, Good gives [{a}, {b, c}].
C14_WeakOrderByScale ==
    WeakOrderRead =>
        LET b == x.ballot
            sc == BallotScale(b)
        IN  /\ UnionSeq(read.value) = DOMAIN b.levels
            /\ \A i \in 1 .. Len(read.value) : read.value[i] # {}
            /\ \A c \in DOMAIN b.levels : \A e \in DOMAIN b.levels :
                  /\ PyEq(b.levels[c], b.levels[e]) => ReadClassOf(c) = ReadClassOf(e)
                  /\ gt(sc, b.levels[c], b.levels[e]) => ReadClassOf(c) < ReadClassOf(e)
            /\ b = DocGrades => read.value = << {"a"}, {"b", "c"} >>

\* the scale of a Levels ballot was read
ScaleRead == pc = "read" /\ read.attr = "scale"

\* v is the lowest (the highest) of the values of the ballot
IsLowest(b, v) == v \in Values(b) /\ \A w \in Values(b) : Le(v, w)
IsHighest(b, v) == v \in Values(b) /\ \A w \in Values(b) : Le(w, v)

\* C15: the scale of a Levels ballot is the scale given at construction;
\* when none was given it is ScaleFromSet of the empty set for an empty
\* ballot, ScaleRange(min, max) when all values are integers, else
\* ScaleInterval(min, max) when all values are numbers, else ScaleFromSet
\* of the values.
C15_ScaleInference ==
    ScaleRead =>
        LET b == x.ballot
            sc == read.value
        IN  /\ b.scale # NoScale => sc = b.scale
            /\ (b.scale = NoScale /\ DOMAIN b.levels = {}) => sc = ScaleFromSet({})
            /\ (b.scale = NoScale /\ DOMAIN b.levels # {}) =>
                  IF \A v \in Values(b) : v.k = "int"
                  THEN sc.type = "ScaleRange"
                       /\ IsLowest(b, sc.low) /\ IsHighest(b, sc.high)
                  ELSE IF \A v \in Values(b) : v.k \in {"int", "float"}
                  THEN sc.type = "ScaleInterval"
                       /\ IsLowest(b, sc.low) /\ IsHighest(b, sc.high)
                  ELSE sc.type = "ScaleFromSet" /\ Range(sc.levels) = Values(b)

\* two different integer grades and no scale given: a ScaleRange between them
C15_Witness ==
    /\ ScaleRead
    /\ x.ballot.scale = NoScale
    /\ read.value.type = "ScaleRange"
    /\ Lt(read.value.low, read.value.high)

(***************************************************************************)
(* Properties of the converter to plurality ballots (SpecToPlurality).     *)
(***************************************************************************)
\* c is preferred to e in the ballot: an earlier class of an Order ballot,
\* a higher level in the order of the scale of a Levels ballot
Preferred(b, c, e) ==
    IF b.variant = "BallotLevels"
    THEN gt(BallotScale(b), b.levels[c], b.levels[e])
    ELSE ClassOf(b.order, c) < ClassOf(b.order, e)

\* the top indifference class of the ballot restricted to the candidates kept
TopClass(b, kept) ==
    LET among == candidates_in_b(b) \cap kept
    IN  { c \in among : \A e \in among : ~ Preferred(b, e, c) }

\* the result expected when the priority chooses in the set among
Chosen(priority, among) ==
    IF priority = UNAMBIGUOUS /\ Cardinality(among) > 1
    THEN out.exc = "ValueError"
    ELSE /\ Returned(out)
         /\ out.ballot.candidate = (IF among = {} THEN None ELSE FirstName(among))

\* C16: ConverterBallotToPlurality, on a ballot, returns a Plurality ballot
\* whose declared candidates are those of the ballot within the candidates
\* given, and which holds: for an Order or Levels ballot, the choice of
\* order_priority in the top indifference class of the restricted ballot; for
\* a Veto ballot, the choice of veto_priority among the candidates kept other
\* than the vetoed one; for a OneName or Plurality ballot, its candidate when
\* that candidate is kept.  A choice that the priority cannot make raises.
C16_ToPlurality ==
    (Done /\ conv.kind = "ToPlurality" /\ x.tag = "ballot") =>
        LET b == x.ballot
            kept == Kept(b.candidates, cands)
        IN  /\ Returned(out) =>
                /\ out.ballot.variant = "BallotPlurality"
                /\ out.ballot.candidates = kept
            /\ IsInstance(b, "BallotOrder") =>
                Chosen(conv.g.order_priority, TopClass(b, kept))
            /\ b.variant = "BallotVeto" =>
                Chosen(conv.g.veto_priority, kept \ {b.candidate})
            /\ (b.variant \in {"BallotOneName", "BallotPlurality"}
                /\ b.candidate \in kept) =>
                Returned(out) /\ out.ballot.candidate = b.candidate

(***************************************************************************)
(* Properties of the scorers (SpecScorer).                                 *)
(***************************************************************************)
\* the scores of a loaded ScorerBucklin were read, the election having a
\* set of candidates
ScoresRead ==
    /\ read.attr = "scores_"
    /\ scorer.ballot_ # NoBallot
    /\ ~ scorer.candidates_.none

Unordered(inst) == inst.ballot_.candidates \ UnionSeq(inst.ballot_.order)
Absent(inst) == inst.candidates_.set \ inst.ballot_.candidates

\* the classes that share the points: those of the ballot, then the
\* unordered and the absent candidates when their policy is True
Sharing(inst) ==
    inst.ballot_.order
    \o (IF inst.unordered_receive_points = "True" THEN << Unordered(inst) >> ELSE <<>>)
    \o (IF inst.absent_receive_points = "True" THEN << Absent(inst) >> ELSE <<>>)

\* the number of candidates in the classes before class i
Before(classes, i) == Cardinality(UNION { classes[j] : j \in 1 .. (i - 1) })

\* class i is no larger than the points left when it is reached
Fits(classes, i, k) == Before(classes, i) + Cardinality(classes[i]) <= k

\* the share of a member of class i: 1 when the class and all those before
\* fit, the points left divided by its size when it is the first one that
\* does not fit, 0 after that one
Share(classes, i, k) ==
    IF \A j \in 1 .. i : Fits(classes, j, k) THEN PyFloat(1, 1)
    ELSE IF \A j \in 1 .. (i - 1) : Fits(classes, j, k)
        THEN PyFloat(k - Before(classes, i), Cardinality(classes[i]))
    ELSE PyFloat(0, 1)

DocScores ==
    [c \in {"a", "b", "c", "d", "e", "f", "g"} |->
        IF c \in {"a", "b", "c"} THEN PyFloat(1, 1)
        ELSE IF c \in {"d", "e"} THEN PyFloat(1, 2) ELSE PyFloat(0, 1)]

\* C17: ScorerBucklin.scores_ gives 1 point to each member of the classes
\* that fit in the points left, splits the points left between the members
\* of the first class that does not fit, and gives 0 after it; the unordered
\* and then the absent candidates are one more class each when their policy
\* is True, get 0 when it is False and no entry when it is None.  For
\* 'a > b ~ c' over {a..e} in the election {a..g} with k = 4 the scores are
\* {a: 1, b: 1, c: 1, d: 0.5, e: 0.5, f: 0, g: 0}.
C17_BucklinScores ==
    ScoresRead =>
        LET inst == scorer
            classes == Sharing(inst)
            scores == read.value.value
            zeros == (IF inst.unordered_receive_points = "False"
                      THEN Unordered(inst) ELSE {})
                     \cup (IF inst.absent_receive_points = "False"
                           THEN Absent(inst) ELSE {})
        IN  /\ read.value.exc = "none"
            /\ DOMAIN scores = UnionSeq(classes) \cup zeros
            /\ \A i \in 1 .. Len(classes) : \A c \in classes[i] :
                   scores[c] = Share(classes, i, inst.k)
            /\ \A c \in zeros : scores[c] = PyFloat(0, 1)
            /\ (inst.ballot_ = DocBucklin /\ inst.candidates_ = DocElection
                /\ inst.k = 4 /\ inst.unordered_receive_points = "True"
                /\ inst.absent_receive_points = "True") => scores = DocScores

\* the unordered candidates split what the ordered ones left, and the absent
\* ones, a class of their own, get 0
C17_Witness ==
    /\ ScoresRead
    /\ read.value.exc = "none"
    /\ scorer.unordered_receive_points = "True"
    /\ scorer.absent_receive_points = "True"
    /\ Absent(scorer) # {}
    /\ \E c \in Unordered(scorer) :
           Lt(PyFloat(0, 1), read.value.value[c])
           /\ Lt(read.value.value[c], PyFloat(1, 1))
    /\ \A c \in Absent(scorer) : read.value.value[c] = PyFloat(0, 1)
    /\ \A c \in UnionSeq(scorer.ballot_.order) : read.value.value[c] = PyFloat(1, 1)
    /\ scorer.ballot_.order # <<>>

(***************************************************************************)
(* Properties of RuleMajorityJudgment (SpecMajority).                      *)
(***************************************************************************)
ScoresOfRule ==
    /\ rule.class = "RuleMajorityJudgment"
    /\ read.attr = "scores_"
    /\ read.value.exc = "none"

\* the levels that candidate c received, each with the weight of its ballot
Voters(c) ==
    { i \in 1 .. Len(rule.profile_converted_) :
        c \in DOMAIN rule.profile_converted_[i].ballot.levels }

LevelOf(c, i) == rule.profile_converted_[i].ballot.levels[c]

\* the weight of the voters i of the set who satisfy keep
RECURSIVE WeightOf(_)
WeightOf(voters) ==
    IF voters = {} THEN PyInt(0)
    ELSE LET i == CHOOSE i \in voters : TRUE
         IN  Add(rule.profile_converted_[i].weight, WeightOf(voters \ {i}))

AtMost(c, level) ==
    { i \in Voters(c) : ~ gt(rule.scorer.scale, LevelOf(c, i), level) }

StrictlyAbove(c, level) ==
    { i \in Voters(c) : gt(rule.scorer.scale, LevelOf(c, i), level) }

StrictlyBelow(c, level) ==
    { i \in Voters(c) : lt(rule.scorer.scale, LevelOf(c, i), level) }

\* level is the weighted median of c: the lowest level received whose
\* cumulative weight reaches half of the total weight of c
IsMedian(c, level) ==
    /\ \E i \in Voters(c) : LevelOf(c, i) = level
    /\ Le(WeightOf(Voters(c)), Mul(PyInt(2), WeightOf(AtMost(c, level))))
    /\ \A i \in Voters(c) :
           lt(rule.scorer.scale, LevelOf(c, i), level)
           => Lt(Mul(PyInt(2), WeightOf(AtMost(c, LevelOf(c, i)))),
                 WeightOf(Voters(c)))

ShareOf(voters, c) == TrueDiv(WeightOf(voters), WeightOf(Voters(c)))

DocScoresOfRule ==
    [c \in {"a", "b"} |->
        IF c = "a" THEN << PyFloat(5, 10), PyFloat(-1, 4), PyFloat(1, 4) >>
        ELSE << PyFloat(4, 10), PyFloat(1, 2), PyFloat(-1, 4) >>]

\* the profile of the documentation was loaded, no candidates being given
DocLoaded == rule.profile_original_ = Profile(DocProfile) /\ cands = CandNone

Fresh(attr) ==
    IF rule.class # "None" THEN Attribute(rule, attr) ELSE BucklinScores(scorer)

Holder == IF rule.class # "None" THEN rule ELSE scorer

\* C19: whatever calls were made on a Rule, a Matrix or a Scorer, a value
\* that the instance memoizes is the value computed from the profile (or
\* ballot) and the candidates that the last call stored, an accessor read
\* returns that value, and a value that was read stays memoized until the
\* next call, so that reading again returns it
C19_Memoization ==
    /\ \A attr \in DOMAIN Holder.cache : Holder.cache[attr] = Fresh(attr)
    /\ read.attr # "none" =>
          /\ read.value = Fresh(read.attr)
          /\ read.value.exc = "none" =>
                /\ read.attr \in DOMAIN Holder.cache
                /\ Holder.cache[read.attr] = read.value

\* an accessor was read, the instance was called again with arguments that
\* give the accessor another value, and the accessor was read again
C19_Witness ==
    /\ rule.class \in {"Rule", "Matrix"}
    /\ loads = 2
    /\ changed
    /\ read.attr # "none"
    /\ read.value.exc = "none"

(***************************************************************************)
(* Properties of the call of a Rule or of a Matrix (SpecRule).             *)
(***************************************************************************)
\* the step is a call that completes
Completes == loads' = loads + 1 /\ out'.exc = "none"

\* ballot i of the stored profile, converted by the converter of the
\* instance with the candidates given to the call
ConvertedBallot(inst, i, s) ==
    ConverterBallotGeneral(inst.converter, InBallot(inst.profile_original_[i].ballot), s)

Disagree(inst) ==
    { i \in 1 .. Len(inst.profile_converted_) :
        inst.profile_converted_[i].ballot.candidates # inst.candidates_.set }

\* C20: a call of a Rule or of a Matrix that completes stores, for each
\* ballot of the profile and in the same order, the ballot converted by the
\* converter of the instance with the candidates given, with the same
\* weight and voter, on the same instance; candidates_ is the set given,
\* or the union of the candidates of the converted ballots when none is
\* given; one warning is logged if some converted ballot has other
\* candidates than candidates_ and none otherwise, and what is stored does
\* not depend on the warning
C20_Load ==
    [][Completes =>
        /\ rule'.class = rule.class /\ rule'.converter = rule.converter
        /\ Len(rule'.profile_converted_) = Len(rule'.profile_original_)
        /\ \A i \in 1 .. Len(rule'.profile_original_) :
              /\ Returned(ConvertedBallot(rule', i, cands'))
              /\ rule'.profile_converted_[i].ballot = ConvertedBallot(rule', i, cands').ballot
              /\ rule'.profile_converted_[i].weight = rule'.profile_original_[i].weight
              /\ rule'.profile_converted_[i].voter = rule'.profile_original_[i].voter
        /\ ~ rule'.candidates_.none
        /\ rule'.candidates_.set =
              IF cands'.none
              THEN UNION { rule'.profile_converted_[i].ballot.candidates :
                           i \in 1 .. Len(rule'.profile_converted_) }
              ELSE cands'.set
        /\ warnings' = IF Disagree(rule') # {} THEN warnings + 1 ELSE warnings
    ]_vars

\* a call with no candidates given completed on two ballots or more, of
\* which one has the candidates of the election and another has not, and
\* the warning was logged
C20_Witness ==
    /\ rule.class \in {"Rule", "Matrix"}
    /\ loads = 1 /\ out.exc = "none" /\ cands.none
    /\ warnings = 1
    /\ Disagree(rule) # {}
    /\ Disagree(rule) # 1 .. Len(rule.profile_converted_)
    /\ \E i, j \in 1 .. Len(rule.profile_converted_) :
          rule.profile_converted_[i].weight # rule.profile_converted_[j].weight

\* the step is a call that raises, on an instance that holds a profile
Fails == rule.loaded /\ loads' = loads + 1 /\ out'.exc # "none"

\* C26: a call of a Rule or of a Matrix that fails, the converter raising on
\* some ballot, leaves the instance as it was before the call: its original
\* profile, its converted profile, candidates_ and the memoized values are
\* those of the profile loaded before
C26_FailingLoad == [][Fails => rule' = rule]_vars

(***************************************************************************)
(* Properties of the accessors that Rule derives from order_ (SpecOrder).  *)
(***************************************************************************)
\* the value memoized for an accessor of the rule
Has(attr) == attr \in DOMAIN rule.cache
Memo(attr) == rule.cache[attr].value

\* the class of a weak order that holds candidate c
ClassIndex(order, c) == CHOOSE i \in 1 .. Len(order) : c \in order[i]

\* c is what the priority chooses in s: a member of s, the only one when
\* the priority is UNAMBIGUOUS, the first name (the last when reversed) when
\* it is ASCENDING
IsChoice(priority, s, c, reverse) ==
    /\ c \in s
    /\ priority = UNAMBIGUOUS => s = {c}
    /\ priority = ASCENDING =>
         \A e \in s : IF reverse THEN NameRank(e) <= NameRank(c)
                      ELSE NameRank(c) <= NameRank(e)

\* a read of the accessor attr raised
ReadRaised(attr) == read.attr = attr /\ read.value.exc # "none"

\* the priority cannot choose in s
Undecided(s) == rule.tie_break = UNAMBIGUOUS /\ Cardinality(s) > 1

\* C21: for a loaded Rule whose order_ is a non-empty weak order, cowinners_
\* is the first class and cotrailers_ the last; winner_ is the choice of the
\* tie-break among cowinners_ and a member of it; trailer_ is the reversed
\* choice among cotrailers_ and a member of it; strict_order_ lists every
\* candidate of order_ exactly once, the members of an earlier class before
\* those of a later one, winner_ first.  An accessor raises only when the
\* tie-break cannot decide a class it has to decide.
C21_OrderAccessors ==
    Len(x) > 0 =>
        /\ Has("cowinners_") => Memo("cowinners_") = x[1]
        /\ Has("cotrailers_") => Memo("cotrailers_") = x[Len(x)]
        /\ ~ ReadRaised("cowinners_") /\ ~ ReadRaised("cotrailers_")
        /\ Has("winner_") =>
             /\ Has("cowinners_")
             /\ IsChoice(rule.tie_break, Memo("cowinners_"), Memo("winner_"), FALSE)
        /\ ReadRaised("winner_") => Undecided(x[1])
        /\ Has("trailer_") =>
             /\ Has("cotrailers_")
             /\ IsChoice(rule.tie_break, Memo("cotrailers_"), Memo("trailer_"), TRUE)
        /\ ReadRaised("trailer_") => Undecided(x[Len(x)])
        /\ Has("strict_order_") =>
             /\ Len(Memo("strict_order_")) = Cardinality(UnionSeq(x))
             /\ Range(Memo("strict_order_")) = UnionSeq(x)
             /\ \A i, j \in 1 .. Len(Memo("strict_order_")) :
                  i < j => ClassIndex(x, Memo("strict_order_")[i])
                           <= ClassIndex(x, Memo("strict_order_")[j])
             /\ Has("winner_") => Memo("strict_order_")[1] = Memo("winner_")
        /\ ReadRaised("strict_order_") => \E i \in 1 .. Len(x) : Undecided(x[i])

\* the order a ~ b > c and a tie-break that takes names in ascending order:
\* the winner is a, the trailer c and the strict order a, b, c
C21_Witness ==
    /\ x = << {"a", "b"}, {"c"} >>
    /\ rule.tie_break = ASCENDING
    /\ Has("winner_") /\ Has("trailer_") /\ Has("strict_order_")
    /\ Memo("winner_") = "a" /\ Memo("trailer_") = "c"
    /\ Memo("strict_order_") = <<"a", "b", "c">>

(***************************************************************************)
(* Properties of RuleSimplifiedDodgson (SpecDodgson).                      *)
(***************************************************************************)
\* the voters of the converted profile who rank c above d
Prefer(c, d) ==
    { i \in 1 .. Len(rule.profile_converted_) :
        Above(rule.profile_converted_[i].ballot, c, d) }

\* the candidates that defeat c: more weight ranks them above c than below
Defeats(c, among) ==
    { d \in among \ {c} : Lt(WeightOf(Prefer(c, d)), WeightOf(Prefer(d, c))) }

\* the coefficient of (c, d) in the antisymmetric matrix
Margin(c, d) ==
    TrueDiv(Sub(WeightOf(Prefer(c, d)), WeightOf(Prefer(d, c))),
            WeightOf(1 .. Len(rule.profile_converted_)))

\* the sum of the coefficients of c against the candidates of a set
RECURSIVE Margins(_, _)
Margins(c, against) ==
    IF against = {} THEN PyInt(0)
    ELSE LET d == CHOOSE d \in against : TRUE
         IN  Add(Margin(c, d), Margins(c, against \ {d}))

DocDodgsonScores ==
    [c \in {"a", "b", "c"} |->
        IF c = "a" THEN PyInt(0)
        ELSE IF c = "b" THEN PyFloat(-1, 4) ELSE PyFloat(-1, 1)]

\* the profile of the documentation was loaded, with all its candidates
DocDodgsonLoaded ==
    rule.profile_original_ = Profile(DocDodgson) /\ cands # CandSet({"a", "b"})

\* C22: RuleSimplifiedDodgson gives each candidate of its matrix the sum of
\* the negative coefficients of its row, the diagonal left out: the sum of
\* its margins against the candidates that defeat it; every score is at most
\* 0 and a candidate that nobody defeats scores 0; the ballots a > b > c,
\* b > a > c, c > a > b with weights 3, 3, 2 give a: 0, b: -0.25, c: -1.0
\* and the winner a
C22_SimplifiedDodgson ==
    /\ Has("scores_") =>
         \A c \in DOMAIN Memo("scores_") :
            /\ Le(Memo("scores_")[c], PyInt(0))
            /\ NumEq(Memo("scores_")[c],
                     Margins(c, Defeats(c, DOMAIN Memo("scores_"))))
            /\ Defeats(c, DOMAIN Memo("scores_")) = {} => Memo("scores_")[c] = PyInt(0)
    /\ (Has("scores_") /\ DocDodgsonLoaded) => Memo("scores_") = DocDodgsonScores
    /\ (Has("winner_") /\ DocDodgsonLoaded) => Memo("winner_") = "a"
    /\ (ReadRaised("winner_") /\ rule.loaded) =>
         \/ Undecided(BestScores(DodgsonScores(rule).value))
         \/ DOMAIN DodgsonScores(rule).value = {}

\* the profile of the documentation: c is defeated by a and by b, and its
\* score is the sum of the two margins; a is the winner
C22_Witness ==
    /\ rule.class = "RuleSimplifiedDodgson"
    /\ DocDodgsonLoaded
    /\ Has("scores_") /\ Has("winner_")
    /\ Defeats("c", {"a", "b", "c"}) = {"a", "b"}
    /\ Memo("scores_")["c"] = PyFloat(-1, 1)
    /\ Memo("winner_") = "a"

\* C29: the keys of RuleSimplifiedDodgson.scores_ are the candidates_ of the
\* rule for every load, also when candidates are given of which some appear
\* in no ballot: the matrix inside the rule has the candidates of the rule
C29_ScoreKeys ==
    (rule.class = "RuleSimplifiedDodgson" /\ Len(rule.profile_converted_) > 0) =>
        /\ Has("scores_") => DOMAIN Memo("scores_") = rule.candidates_.set
        /\ Has("matrix_weighted_majority_") =>
             Memo("matrix_weighted_majority_").candidates_ = rule.candidates_

(***************************************************************************)
(* Properties of RuleBlack (SpecBlack).                                    *)
(***************************************************************************)
\* the voters of the converted profile who rank c and d in the same class
Indifferent(c, d) ==
    { i \in 1 .. Len(rule.profile_converted_) :
        Tied(rule.profile_converted_[i].ballot, c, d) }

\* c is a Condorcet winner: against every other candidate, more weight
\* ranks c above than below
IsCondorcetWinner(c) ==
    \A d \in rule.candidates_.set \ {c} :
        Lt(WeightOf(Prefer(d, c)), WeightOf(Prefer(c, d)))

\* twice the Borda points of c against the candidates of a set: two per
\* unit of weight that ranks c above, one per unit that ranks them together
RECURSIVE TwiceBorda(_, _)
TwiceBorda(c, against) ==
    IF against = {} THEN PyInt(0)
    ELSE LET d == CHOOSE d \in against : TRUE
         IN  Add(Add(Mul(PyInt(2), WeightOf(Prefer(c, d))), WeightOf(Indifferent(c, d))),
                 TwiceBorda(c, against \ {d}))

BordaOf(c) == TwiceBorda(c, rule.candidates_.set \ {c})

\* the first or the second profile of the documentation was loaded
DocBlackLoaded ==
    /\ rule.profile_original_ \in {Profile(DocBlackCondorcet), Profile(DocBlackBorda)}
    /\ cands = CandNone

\* C23: RuleBlack elects the Condorcet winner whenever there is one, even
\* if its Borda score is not the best, and otherwise orders the candidates
\* by their Borda scores; after a load, rule_condorcet_ and rule_borda_ are
\* rules loaded with the converted profile of the rule, and reading them
\* does not fail
C23_Black ==
    /\ Has("order_") =>
         /\ \A c \in rule.candidates_.set :
               IsCondorcetWinner(c) => Memo("order_")[1] = {c}
         /\ (\A c \in rule.candidates_.set : ~ IsCondorcetWinner(c)) =>
               \A c, d \in rule.candidates_.set :
                   ClassIndex(Memo("order_"), c) < ClassIndex(Memo("order_"), d)
                   <=> Lt(BordaOf(d), BordaOf(c))
         /\ DocBlackLoaded => Memo("order_") = << {"a"}, {"b"}, {"c"} >>
    /\ Has("winner_") =>
         \A c \in rule.candidates_.set : IsCondorcetWinner(c) => Memo("winner_") = c
    /\ \A attr \in {"rule_condorcet_", "rule_borda_"} :
         /\ Has(attr) =>
              /\ Memo(attr).loaded
              /\ Memo(attr).profile_original_ = rule.profile_converted_
              /\ Memo(attr).profile_converted_ = rule.profile_converted_
         /\ ReadRaised(attr) => ~ rule.loaded
    /\ ReadRaised("order_") => ~ rule.loaded

\* the first example: a is the Condorcet winner and is elected, although
\* the Borda score of b is higher; the two rules were read
C23_Witness ==
    /\ rule.class = "RuleBlack"
    /\ rule.profile_original_ = Profile(DocBlackCondorcet)
    /\ IsCondorcetWinner("a")
    /\ Lt(BordaOf("a"), BordaOf("b"))
    /\ Has("winner_") /\ Memo("winner_") = "a"
    /\ Has("rule_condorcet_") /\ Has("rule_borda_")

(***************************************************************************)
(* Properties of RuleKimRoush (SpecKimRoush).                              *)
(***************************************************************************)
\* the candidates of round k: all of them in the first round, then those
\* that the round before did not eliminate
RoundCandidates(k) ==
    IF k = 1 THEN rule.candidates_.set ELSE rule.eliminations[k - 1].qualifiers

\* the voters who rank c last among the candidates of a set
VetoVoters(c, among) ==
    { i \in 1 .. Len(rule.profile_converted_) :
        Vetoed(rule.profile_converted_[i].ballot, among, c) }

\* the sum of the scores of the candidates of a set
RECURSIVE ScoreSum(_, _)
ScoreSum(scores, among) ==
    IF among = {} THEN PyInt(0)
    ELSE LET c == CHOOSE c \in among : TRUE
         IN  Add(scores[c], ScoreSum(scores, among \ {c}))

\* the score of c is lower than the average of the scores
LowerThanAverage(scores, c) ==
    Lt(Mul(PyInt(Cardinality(DOMAIN scores)), scores[c]),
       ScoreSum(scores, DOMAIN scores))

\* round k is as the rule says: Veto scores of the candidates that remain,
\* those below the average eliminated, the others kept
RoundAsRuled(k) ==
    /\ DOMAIN rule.eliminations[k].scores = RoundCandidates(k)
    /\ \A c \in RoundCandidates(k) :
          NumEq(rule.eliminations[k].scores[c],
                Sub(PyInt(0), WeightOf(VetoVoters(c, RoundCandidates(k)))))
    /\ rule.eliminations[k].eliminated
         = { c \in RoundCandidates(k) : LowerThanAverage(rule.eliminations[k].scores, c) }
    /\ rule.eliminations[k].qualifiers
         = RoundCandidates(k) \ rule.eliminations[k].eliminated
    /\ rule.eliminations[k].qualifiers # {}
    /\ k < Len(rule.eliminations) => rule.eliminations[k].eliminated # {}

\* the rounds of the example
DocRounds ==
    << [c \in {"a", "b", "c", "d"} |-> IF c \in {"a", "b"} THEN PyInt(0) ELSE PyInt(-1)],
       [c \in {"a", "b"} |-> IF c = "a" THEN PyInt(0) ELSE PyInt(-2)],
       [c \in {"a"} |-> PyInt(-2)] >>

DocKimRoushLoaded ==
    rule.profile_original_ = Profile(DocKimRoush) /\ cands = CandNone

\* the rounds are over
RoundsOver == rule.class = "RuleKimRoush" /\ pc = "done"

\* the candidates that the last round left
Finalists == rule.eliminations[Len(rule.eliminations)].qualifiers

\* what holds of the rounds made so far, and of the winner once it is read
RoundsAsRuled ==
    /\ pc \in {"rounds", "scored", "done"} =>
         \A k \in 1 .. Len(rule.eliminations) : RoundAsRuled(k)
    /\ RoundsOver =>
         /\ Has("eliminations_") /\ Memo("eliminations_") = rule.eliminations
         /\ Len(rule.eliminations) >= 1
         /\ Len(rule.eliminations) <= Cardinality(rule.candidates_.set)
         /\ DocKimRoushLoaded =>
              /\ [k \in 1 .. Len(rule.eliminations) |-> rule.eliminations[k].scores]
                   = DocRounds
              /\ Finalists = {"a"}
         /\ Has("winner_") => IsChoice(rule.tie_break, Finalists, Memo("winner_"), FALSE)
         /\ ReadRaised("winner_") => Undecided(Finalists)

\* C24, as stated: the rounds are as the rule says, they end, and the rule
\* then has a winner: reading winner_ gives a candidate
C24_Original ==
    /\ RoundsAsRuled
    /\ RoundsOver => ~ ReadRaised("winner_")

\* C24: RuleKimRoush runs rounds on shrinking sets of candidates; each round
\* eliminates exactly the candidates whose Veto score is lower than the
\* average of the candidates that remain; for every profile the rounds end
\* after finitely many steps, the scores of every round stay readable in
\* eliminations_, and winner_ is the choice of the tie-break among the
\* candidates that the last round leaves: it raises when the tie-break is
\* UNAMBIGUOUS and several candidates remain
C24_KimRoush == [] RoundsAsRuled /\ (rule.loaded ~> RoundsOver)

\* the example: three rounds, on a, b, c, d, then on a, b, then on a; the
\* winner is a
C24_Witness ==
    /\ RoundsOver /\ DocKimRoushLoaded
    /\ Len(rule.eliminations) = 3
    /\ rule.eliminations[1].eliminated = {"c", "d"}
    /\ rule.eliminations[2].eliminated = {"b"}
    /\ Has("winner_") /\ Memo("winner_") = "a"

(***************************************************************************)
(* Properties of RuleMajorityJudgment.compare_scores (SpecCompare).        *)
(***************************************************************************)
ScoresCompared == read.attr = "compare_scores"

\* the two tuples are equal, as Python compares them
EqualTuples(one, another) ==
    /\ one[1].k = another[1].k
    /\ one[1].k # "None" => NumEq(one[1], another[1])
    /\ NumEq(one[2], another[2]) /\ NumEq(one[3], another[3])

\* the numeric pair of one tuple is below that of the other
PairBelow(one, another) ==
    \/ Lt(one[2], another[2])
    \/ NumEq(one[2], another[2]) /\ Lt(one[3], another[3])

\* the median of one tuple is strictly lower in the scale of the rule; None
\* is a level of no scale
MedianBelow(one, another) ==
    /\ one[1].k # "None" /\ another[1].k # "None"
    /\ lt(rule.scorer.scale, one[1], another[1])

\* what the lexicographic comparison of two tuples gives
Lexicographic(one, another) ==
    IF EqualTuples(one, another) THEN 0
    ELSE IF MedianBelow(one, another) THEN -1
    ELSE IF MedianBelow(another, one) THEN 1
    ELSE IF PairBelow(one, another) THEN -1
    ELSE 1

\* C25: compare_scores is a lexicographic total comparison of the tuples that
\* scores_ gives: it returns a result for every two of them, 0 exactly when
\* they are equal, -1 (1) when the median of the first is strictly lower
\* (higher) in the scale whatever the numeric pairs, the order of the numeric
\* pairs when the medians are equal, and compare_scores(x, y) is the
\* opposite of compare_scores(y, x)
C25_CompareScores ==
    ScoresCompared =>
        /\ read.value.exc = "none"
        /\ read.value.value = Lexicographic(read.one, read.another)
        /\ read.value.value = 0 <=> EqualTuples(read.one, read.another)
        /\ CompareScores(rule, read.another, read.one).exc = "none"
        /\ read.value.value = 0 - CompareScores(rule, read.another, read.one).value

(***************************************************************************)
(* scores_ of RuleMajorityJudgment on every profile (SpecMajority).        *)
(***************************************************************************)
\* scores_ of a loaded RuleMajorityJudgment was read
MajorityScoresRead ==
    rule.class = "RuleMajorityJudgment" /\ rule.loaded /\ read.attr = "scores_"

\* a number between -1 and 1
WithinUnit(v) == Le(PyInt(-1), v) /\ Le(v, PyInt(1))

\* C27: scores_ is defined for every profile whose weights are not negative:
\* it gives a tuple to each candidate of candidates_, (default_median, 0, 0)
\* to a candidate that no ballot grades, also when the total weight of the
\* voters who grade a candidate is zero, and the two numeric items of every
\* tuple are between -1 and 1
C27_ScoresDefined ==
    MajorityScoresRead =>
        /\ read.value.exc = "none"
        /\ DOMAIN read.value.value = rule.candidates_.set
        /\ \A c \in rule.candidates_.set :
              /\ Len(read.value.value[c]) = 3
              /\ Voters(c) = {} =>
                    read.value.value[c] = <<rule.default_median, PyInt(0), PyInt(0)>>
              /\ WithinUnit(read.value.value[c][2])
              /\ WithinUnit(read.value.value[c][3])

(***************************************************************************)
(* Bounds of the scores of ScorerBucklin (SpecScorer).                     *)
(***************************************************************************)
\* scores_ of a loaded ScorerBucklin was read and gave scores
ScoresGiven ==
    /\ scorer.class = "ScorerBucklin" /\ scorer.ballot_ # NoBallot
    /\ read.attr = "scores_" /\ read.value.exc = "none"

\* unordered and absent candidates both receive points
BothReceive(inst) ==
    inst.unordered_receive_points = "True" /\ inst.absent_receive_points = "True"

Smaller(m, n) == IF m <= n THEN m ELSE n

\* no candidate of a class has less than a candidate of a later class
Decreasing(scores, order) ==
    \A i, j \in 1 .. Len(order) :
        i < j => \A c \in order[i], d \in order[j] : Le(scores[d], scores[c])

\* C28: for every ballot, every k >= 0 and every setting of the two
\* policies, each score of ScorerBucklin.scores_ is between 0 and 1 and the
\* scores sum to at most k; when unordered and absent candidates both
\* receive points, the candidates scored are those that the ballot declares
\* together with those of the election, the scores sum to the smaller of k
\* and the number of candidates scored, and no candidate has more than a
\* candidate that the ballot ranks above it
C28_BucklinBounds ==
    ScoresGiven =>
        /\ \A c \in DOMAIN read.value.value :
               /\ Le(PyInt(0), read.value.value[c])
               /\ Le(read.value.value[c], PyInt(1))
        /\ Le(ScoreSum(read.value.value, DOMAIN read.value.value), PyInt(scorer.k))
        /\ BothReceive(scorer) =>
              /\ DOMAIN read.value.value
                   = scorer.ballot_.candidates \cup scorer.candidates_.set
              /\ NumEq(ScoreSum(read.value.value, DOMAIN read.value.value),
                       PyInt(Smaller(scorer.k, Cardinality(DOMAIN read.value.value))))
              /\ Decreasing(read.value.value, scorer.ballot_.order)

\* k = 2 points for 'a > b ~ c' and other candidates: a has 1, b and c have
\* half a point each, the others have 0, which sums to k
C28_Witness ==
    /\ ScoresGiven /\ BothReceive(scorer)
    /\ scorer.k = 2
    /\ Len(scorer.ballot_.order) = 2
    /\ Cardinality(scorer.ballot_.order[2]) = 2
    /\ \A c \in scorer.ballot_.order[1] : read.value.value[c] = PyFloat(1, 1)
    /\ \A c \in scorer.ballot_.order[2] : read.value.value[c] = PyFloat(1, 2)
    /\ Cardinality(DOMAIN read.value.value) > 3
    /\ scorer.candidates_.set \ scorer.ballot_.candidates # {}

(***************************************************************************)
(* The candidates argument of ConverterBallotToLevelsInterval              *)
(* (SpecToInterval).                                                       *)
(***************************************************************************)
\* converter(x, None): the same converter on the same input, no candidates
Unrestricted == ConverterBallotToLevelsInterval(conv.t, x, CandNone)

\* the call had a set of candidates and returned a ballot
RestrictedCall ==
    Done /\ conv.kind = "ToLevelsInterval" /\ ~ cands.none /\ Returned(out)

\* C30: in ConverterBallotToLevelsInterval the candidates argument only
\* filters the result: converter(x, S) is converter(x, None) restricted to S
\* (it raises what converter(x, None) raises), so that each candidate kept
\* has the level computed from the whole ballot, and no priority is used
C30_CandidatesOnlyFilter ==
    (Done /\ conv.kind = "ToLevelsInterval") =>
        \A full \in { Unrestricted } :
            /\ out.exc = full.exc
            /\ Returned(out) =>
                  /\ out.ballot.variant = "BallotLevels"
                  /\ out.ballot.levels
                       = RestrictDict(full.ballot.levels, Kept(DOMAIN full.ballot.levels, cands))
                  /\ out.ballot.candidates = Kept(full.ballot.candidates, cands)
                  /\ BallotScale(out.ballot) = BallotScale(full.ballot)

\* the order a > b > c is converted for the candidates b and c: b keeps the
\* half point it has among the three candidates
C30_Witness ==
    /\ RestrictedCall
    /\ IsBallotOf(x, {"BallotOrder"})
    /\ x.ballot.order = << {"a"}, {"b"}, {"c"} >>
    /\ cands.set = {"b", "c"}
    /\ conv.t.scale = UnitInterval
    /\ DOMAIN out.ballot.levels = {"b", "c"}
    /\ NumEq(out.ballot.levels["b"], PyFloat(1, 2))
    /\ NumEq(out.ballot.levels["c"], PyFloat(0, 1))

====
